---------------------------- MODULE Spec2Model ----------------------------
(***************************************************************************)
(* Model of the what-we-use scan resolution pipeline.                      *)
(*                                                                         *)
(*   ScanSpec    createScanResult (apps/api/lib/scan.ts) with the shared   *)
(*               helpers slugify / normalizeRisk / getOverallRisk, the     *)
(*               Extractor output hardening and the Overlay lookup.        *)
(*   GeminiSpec  callGeminiJson / fetchWithRetry (apps/api/lib/gemini.ts): *)
(*               the bounded 429 retry loop, the retry delay and the       *)
(*               classification of a failed call, safeJsonParse and the    *)
(*               hardening of the parsed output.                           *)
(*   RulesSpec   scoreCleaningProduct (api/src/rules.js) followed by       *)
(*               getSwapSuggestions, as the analyze route calls them.      *)
(*   ChatSpec    the chat route (apps/api/app/page.tsx): the sources of    *)
(*               the scan, the answer of the model and the citations       *)
(*               that are returned.                                        *)
(*   RiskSpec    normalizeRisk over arbitrary casing and padding.          *)
(*   HandleSpec  getFirestore (apps/api/lib/scan.ts): the cached handle    *)
(*               and the credentials it is built from.                     *)
(*   RouteSpec   POST /api/scan (apps/api/app/api/scan/route.ts): body     *)
(*               validation in front of createScanResult.                  *)
(*   RoundTripSpec  createScanResult run on the names of its own result.   *)
(*   MobileSpec  the mobile App (apps/mobile/App.tsx): captures, OCR,      *)
(*               acceptance, analysis requests and resets, with the        *)
(*               awaits of each handler as separate steps.                 *)
(*                                                                         *)
(* JavaScript strings are TLA+ strings; they are taken apart character by  *)
(* character so that trimming, lower-casing and the slug transform are     *)
(* computed, not assumed.                                                  *)
(***************************************************************************)
EXTENDS Naturals, Integers, Sequences, FiniteSets, TLC

VARIABLES
    \* ---- createScanResult -------------------------------------------------
    pc,             \* position inside createScanResult
    input,          \* the argument object {text, ingredients, geminiData, skipAi}
    apiKeySet,      \* process.env.GEMINI_API_KEY is set
    fsConfigured,   \* isFirestoreConfigured()
    store,          \* the Overlay collection "ingredients": slug -> document
    geminiData,     \* the local geminiData of createScanResult
    aiCall,         \* which Extractor call the scan made: "none", "text", "names"
    aiThrew,        \* that call threw
    uniqueNames,    \* the deduped source names
    slots,          \* Promise.all slots: the ingredient of each unique name
    lookup,         \* per slot, how its Overlay lookup ended
    result,         \* the returned ScanResult
    \* ---- callGeminiJson / fetchWithRetry ------------------------------------
    gpc,            \* position inside callGeminiJson
    attempt,        \* fetchWithRetry's attempt counter
    requests,       \* the responses received so far, one per HTTP request
    delayMs,        \* the delays slept so far, one per retry
    clock,          \* milliseconds since callGeminiJson was called
    outcome,        \* how callGeminiJson ended
    output,         \* the value callGeminiJson returned to analyzeWithGemini
    scanOutput,     \* the GeminiScanOutput analyzeWithGemini returned
    \* ---- scoreCleaningProduct / getSwapSuggestions ---------------------------
    rpc,            \* position inside the scoring of one product
    product,        \* the product object handed to scoreCleaningProduct
    preferences,    \* the preferences object
    scored,         \* what scoreCleaningProduct returned
    swaps,          \* what getSwapSuggestions returned
    \* ---- the chat route ----------------------------------------------------
    cpc,            \* position inside the chat route's POST
    chatBody,       \* the parsed request body {question, scan: {ingredients}}
    chatSources,    \* the local sources: normalizeSources(ingredients)
    chatAnswer,     \* what answerQuestionWithContext returned
    chatReply,      \* the HTTP response of the chat route
    \* ---- normalizeRisk ------------------------------------------------------
    npc,            \* before or after the call of normalizeRisk
    riskValue,      \* the argument of normalizeRisk
    riskLevel,      \* what normalizeRisk returned
    \* ---- getFirestore -------------------------------------------------------
    env,            \* FIREBASE_SERVICE_ACCOUNT_JSON and FIREBASE_SERVICE_ACCOUNT_PATH
    file,           \* the content of the file at that path, Undefined without file
    cachedDb,       \* the module variable cachedDb: 0 is null, else a handle
    apps,           \* admin.apps.length
    handles,        \* the handles admin.firestore() has returned so far
    calls,          \* per caller: how its getFirestore call ended
    \* ---- the scan route -----------------------------------------------------
    hpc,            \* position inside the scan route's POST
    requestBody,    \* the text of the request body
    routeReply,     \* the HTTP response of the scan route
    \* ---- a scan fed back into createScanResult ------------------------------
    round,          \* 1: the original scan, 2: the scan of its result names
    mock,           \* what the mocked Extractor does whenever it is called
    firstResult,    \* the ScanResult of round 1
    \* ---- the mobile app (apps/mobile/App.tsx) -------------------------------
    mode,           \* "camera" or "text"
    mText,          \* the state text: the typed label text
    isAnalyzing,    \* the state isAnalyzing
    mResult,        \* the state result: 0 is null, else the id of a response
    history,        \* the state history, newest entry first
    frontUri,       \* the front photo: 0 is null, else the number of the photo
    backUri,        \* the back photo
    productName,    \* the product name field
    ocrText,        \* the text of the back OCR
    ocrConfidence,  \* its confidence in percent, NoConfidence for null
    ocrStatus,      \* "idle", "running", "ready" or "failed"
    ocrAccepted,    \* the user pressed Looks Good
    captures,       \* the takePhoto calls awaiting the camera or the thumbnail
    backOcrs,       \* the photos whose runBackOcr awaits runOcr
    frontOcrs,      \* the runFrontOcr calls awaiting runOcr, with their closure
    scans,          \* the scan requests awaiting their response
    photos,         \* photos taken so far
    sent,           \* scan requests sent so far
    acceptedText,   \* the text on screen when the user last pressed Looks Good
    frontRead       \* the text the front OCR of the current front photo read

scanVars == <<pc, input, apiKeySet, fsConfigured, store, geminiData, aiCall, aiThrew,
              uniqueNames, slots, lookup, result>>
geminiVars == <<gpc, attempt, requests, delayMs, clock, outcome, output, scanOutput>>
rulesVars == <<rpc, product, preferences, scored, swaps>>
chatVars == <<cpc, chatBody, chatSources, chatAnswer, chatReply>>
riskVars == <<npc, riskValue, riskLevel>>
handleVars == <<env, file, cachedDb, apps, handles, calls>>
routeVars == <<hpc, requestBody, routeReply>>
tripVars == <<round, mock, firstResult>>
mobileVars == <<mode, mText, isAnalyzing, mResult, history, frontUri, backUri,
                productName, ocrText, ocrConfidence, ocrStatus, ocrAccepted, captures,
                backOcrs, frontOcrs, scans, photos, sent, acceptedText, frontRead>>
otherVars == <<chatVars, riskVars, handleVars, routeVars, tripVars, mobileVars>>
vars == <<scanVars, geminiVars, rulesVars, otherVars>>

---------------------------------------------------------------------------
(* JavaScript values                                                       *)

\* undefined / null / a missing property
Undefined == "<undefined>"

\* JavaScript truthiness of a string-or-undefined value
\* null where a string is expected
NullString == "<null>"

Truthy(v) == v # Undefined /\ v # NullString /\ v # ""

\* a || b
Or(a, b) == IF Truthy(a) THEN a ELSE b

\* String(v || "")
Str(v) == IF Truthy(v) THEN v ELSE ""

UpperAlpha == "ABCDEFGHIJKLMNOPQRSTUVWXYZ"
LowerAlpha == "abcdefghijklmnopqrstuvwxyz"
Digits == "0123456789"

CharAt(s, i) == SubSeq(s, i, i)

CharsOf(s) == {CharAt(s, i) : i \in 1..Len(s)}

IndexOf(s, c) == CHOOSE i \in 1..Len(s) : CharAt(s, i) = c

UpperChars == CharsOf(UpperAlpha)
SlugChars == CharsOf(LowerAlpha) \cup CharsOf(Digits)
LowerOf == [c \in UpperChars |-> CharAt(LowerAlpha, IndexOf(UpperAlpha, c))]

\* one character of String.prototype.toLowerCase
LowerChar(c) == IF c \in UpperChars THEN LowerOf[c] ELSE c

\* String.prototype.toLowerCase, character by character (the text is halved
\* so that long texts need little nesting)
RECURSIVE toLowerCase(_)
toLowerCase(s) ==
    IF s = "" THEN ""
    ELSE IF Len(s) = 1 THEN LowerChar(s)
    ELSE toLowerCase(SubSeq(s, 1, Len(s) \div 2))
         \o toLowerCase(SubSeq(s, Len(s) \div 2 + 1, Len(s)))

IsSpace(c) == c \in {" ", "\n", "\t", "\r"}

RECURSIVE trimStart(_)
trimStart(s) ==
    IF s # "" /\ IsSpace(CharAt(s, 1)) THEN trimStart(SubSeq(s, 2, Len(s))) ELSE s

RECURSIVE trimEnd(_)
trimEnd(s) ==
    IF s # "" /\ IsSpace(CharAt(s, Len(s))) THEN trimEnd(SubSeq(s, 1, Len(s) - 1)) ELSE s

\* String.prototype.trim
trim(s) == trimEnd(trimStart(s))

\* [a-z0-9]
IsSlugChar(c) == c \in SlugChars

\* .replace(/[^a-z0-9]+/g, "-"): every maximal run of other characters
\* becomes one hyphen
RECURSIVE replaceRuns(_, _)
replaceRuns(s, inRun) ==
    IF s = "" THEN ""
    ELSE LET c == CharAt(s, 1)
             rest == SubSeq(s, 2, Len(s))
         IN  IF IsSlugChar(c) THEN c \o replaceRuns(rest, FALSE)
             ELSE IF inRun THEN replaceRuns(rest, TRUE)
             ELSE "-" \o replaceRuns(rest, TRUE)

RECURSIVE stripLeadingHyphens(_)
stripLeadingHyphens(s) ==
    IF s # "" /\ CharAt(s, 1) = "-" THEN stripLeadingHyphens(SubSeq(s, 2, Len(s))) ELSE s

RECURSIVE stripTrailingHyphens(_)
stripTrailingHyphens(s) ==
    IF s # "" /\ CharAt(s, Len(s)) = "-"
    THEN stripTrailingHyphens(SubSeq(s, 1, Len(s) - 1)) ELSE s

\* .replace(/^-+|-+$/g, "")
stripHyphens(s) == stripTrailingHyphens(stripLeadingHyphens(s))

LowerChars == CharsOf(LowerAlpha)
UpperOf == [c \in LowerChars |-> CharAt(UpperAlpha, IndexOf(LowerAlpha, c))]

RECURSIVE toUpperCase(_)
toUpperCase(s) ==
    IF s = "" THEN ""
    ELSE (IF CharAt(s, 1) \in LowerChars THEN UpperOf[CharAt(s, 1)] ELSE CharAt(s, 1))
         \o toUpperCase(SubSeq(s, 2, Len(s)))

\* String.prototype.includes
includes(s, sub) ==
    \E i \in 1..(Len(s) - Len(sub) + 1) : SubSeq(s, i, i + Len(sub) - 1) = sub

DigitChars == CharsOf(Digits)

RECURSIVE DigitsValue(_, _)
DigitsValue(s, acc) ==
    IF s = "" THEN acc
    ELSE DigitsValue(SubSeq(s, 2, Len(s)), 10 * acc + IndexOf(Digits, CharAt(s, 1)) - 1)

NaN == [nan |-> TRUE, value |-> 0]

\* Number(s) for a string: optional sign and decimal digits give the integer,
\* blank gives 0, any other text gives NaN
Number(s) ==
    LET t == trim(s)
        signed == t # "" /\ CharAt(t, 1) \in {"-", "+"}
        digits == IF signed THEN SubSeq(t, 2, Len(t)) ELSE t
    IN  IF t = "" THEN [nan |-> FALSE, value |-> 0]
        ELSE IF digits = "" \/ \E i \in 1..Len(digits) : CharAt(digits, i) \notin DigitChars
        THEN NaN
        ELSE [nan |-> FALSE,
              value |-> IF CharAt(t, 1) = "-" THEN 0 - DigitsValue(digits, 0)
                        ELSE DigitsValue(digits, 0)]

---------------------------------------------------------------------------
(* JSON.parse and the values it returns                                    *)

\* A JavaScript value: type is one of "undefined", "null", "boolean",
\* "number", "string", "array", "object"; str is the text of a string, number
\* or boolean; items are the elements of an array or the property values of
\* an object, keys the property names of an object, in source order.
JsValue(type, str, keys, items) ==
    [type |-> type, str |-> str, keys |-> keys, items |-> items]

JsUndefined == JsValue("undefined", "", <<>>, <<>>)
JsNull == JsValue("null", "", <<>>, <<>>)

\* the state of a parse: ok, the position after what was read, its value
ParseFail == [ok |-> FALSE, pos |-> 0, val |-> JsUndefined]
ParseOk(pos, val) == [ok |-> TRUE, pos |-> pos, val |-> val]

\* JSON whitespace is skipped from position i
RECURSIVE skipWs(_, _)
skipWs(s, i) == IF i <= Len(s) /\ IsSpace(CharAt(s, i)) THEN skipWs(s, i + 1) ELSE i

StartsWithAt(s, i, word) ==
    i + Len(word) - 1 <= Len(s) /\ SubSeq(s, i, i + Len(word) - 1) = word

\* the characters after a backslash and the character each stands for
Escapes == ("\"" :> "\"") @@ ("\\" :> "\\") @@ ("/" :> "/") @@ ("n" :> "\n")
           @@ ("t" :> "\t") @@ ("r" :> "\r")

\* a string literal from the character after its opening quote; acc is the
\* text read so far; a raw control character ends the parse
RECURSIVE parseString(_, _, _)
parseString(s, i, acc) ==
    IF i > Len(s) THEN ParseFail
    ELSE LET c == CharAt(s, i)
         IN  IF c = "\"" THEN ParseOk(i + 1, JsValue("string", acc, <<>>, <<>>))
             ELSE IF c \in {"\n", "\t", "\r"} THEN ParseFail
             ELSE IF c = "\\"
             THEN IF i + 1 <= Len(s) /\ CharAt(s, i + 1) \in DOMAIN Escapes
                  THEN parseString(s, i + 2, acc \o Escapes[CharAt(s, i + 1)])
                  ELSE ParseFail
             ELSE parseString(s, i + 1, acc \o c)

\* the end of the run of digits that starts at i
RECURSIVE digitsEnd(_, _)
digitsEnd(s, i) ==
    IF i <= Len(s) /\ CharAt(s, i) \in DigitChars THEN digitsEnd(s, i + 1) ELSE i

\* an integer literal: -? (0 | [1-9][0-9]*)
parseNumber(s, i) ==
    LET from == IF CharAt(s, i) = "-" THEN i + 1 ELSE i
        to == digitsEnd(s, from)
    IN  IF to = from THEN ParseFail
        ELSE IF CharAt(s, from) = "0" /\ to > from + 1 THEN ParseFail
        ELSE ParseOk(to, JsValue("number", SubSeq(s, i, to - 1), <<>>, <<>>))

RECURSIVE parseValue(_, _)
RECURSIVE parseElements(_, _, _)
RECURSIVE parseMembers(_, _, _, _)

\* the elements of an array after "[" or ","
parseElements(s, i, items) ==
    LET el == parseValue(s, i)
        j == skipWs(s, el.pos)
    IN  IF ~el.ok \/ j > Len(s) THEN ParseFail
        ELSE IF CharAt(s, j) = ","
        THEN parseElements(s, j + 1, Append(items, el.val))
        ELSE IF CharAt(s, j) = "]"
        THEN ParseOk(j + 1, JsValue("array", "", <<>>, Append(items, el.val)))
        ELSE ParseFail

\* the members of an object after "{" or ","
parseMembers(s, i, keys, items) ==
    LET k == skipWs(s, i)
        key == IF k <= Len(s) /\ CharAt(s, k) = "\"" THEN parseString(s, k + 1, "")
               ELSE ParseFail
        colon == skipWs(s, key.pos)
        member == IF key.ok /\ colon <= Len(s) /\ CharAt(s, colon) = ":"
                  THEN parseValue(s, colon + 1) ELSE ParseFail
        j == skipWs(s, member.pos)
    IN  IF ~member.ok \/ j > Len(s) THEN ParseFail
        ELSE IF CharAt(s, j) = ","
        THEN parseMembers(s, j + 1, Append(keys, key.val.str), Append(items, member.val))
        ELSE IF CharAt(s, j) = "}"
        THEN ParseOk(j + 1, JsValue("object", "", Append(keys, key.val.str),
                                    Append(items, member.val)))
        ELSE ParseFail

\* one JSON value from position i
parseValue(s, i) ==
    LET j == skipWs(s, i)
        c == CharAt(s, j)
    IN  IF j > Len(s) THEN ParseFail
        ELSE IF c = "{"
        THEN IF skipWs(s, j + 1) <= Len(s) /\ CharAt(s, skipWs(s, j + 1)) = "}"
             THEN ParseOk(skipWs(s, j + 1) + 1, JsValue("object", "", <<>>, <<>>))
             ELSE parseMembers(s, j + 1, <<>>, <<>>)
        ELSE IF c = "["
        THEN IF skipWs(s, j + 1) <= Len(s) /\ CharAt(s, skipWs(s, j + 1)) = "]"
             THEN ParseOk(skipWs(s, j + 1) + 1, JsValue("array", "", <<>>, <<>>))
             ELSE parseElements(s, j + 1, <<>>)
        ELSE IF c = "\"" THEN parseString(s, j + 1, "")
        ELSE IF StartsWithAt(s, j, "null") THEN ParseOk(j + 4, JsNull)
        ELSE IF StartsWithAt(s, j, "true")
        THEN ParseOk(j + 4, JsValue("boolean", "true", <<>>, <<>>))
        ELSE IF StartsWithAt(s, j, "false")
        THEN ParseOk(j + 5, JsValue("boolean", "false", <<>>, <<>>))
        ELSE IF c = "-" \/ c \in DigitChars THEN parseNumber(s, j)
        ELSE ParseFail

\* JSON.parse(text): ok is FALSE where JSON.parse throws a SyntaxError (no
\* value, or anything but whitespace after it)
JSONparse(s) ==
    LET r == parseValue(s, 1)
    IN  IF r.ok /\ skipWs(s, r.pos) > Len(s) THEN r ELSE ParseFail

\* v is falsy
Falsy(v) ==
    \/ v.type \in {"undefined", "null"}
    \/ v.type = "boolean" /\ v.str = "false"
    \/ v.type = "number" /\ v.str \in {"0", "-0"}
    \/ v.type = "string" /\ v.str = ""

\* String(v); the elements of an array are joined by commas, null and
\* undefined elements as the empty string
RECURSIVE ToStr(_)
RECURSIVE joinItems(_)
joinItems(items) ==
    IF items = <<>> THEN ""
    ELSE (IF Head(items).type \in {"undefined", "null"} THEN "" ELSE ToStr(Head(items)))
         \o (IF Len(items) > 1 THEN "," \o joinItems(Tail(items)) ELSE "")

ToStr(v) ==
    CASE v.type \in {"string", "number", "boolean"} -> v.str
      [] v.type = "null" -> "null"
      [] v.type = "undefined" -> "undefined"
      [] v.type = "object" -> "[object Object]"
      [] v.type = "array" -> joinItems(v.items)

\* the operand v of String(v || ""): Undefined when v is falsy
OrEmpty(v) == IF Falsy(v) THEN Undefined ELSE ToStr(v)

\* v.key and v?.key: the last member of that name, undefined when v is not an
\* object or has no such member
Get(v, key) ==
    LET at == {i \in 1..Len(v.keys) : v.keys[i] = key}
    IN  IF v.type = "object" /\ at # {}
        THEN v.items[CHOOSE i \in at : \A j \in at : i >= j]
        ELSE JsUndefined

---------------------------------------------------------------------------
(* packages/shared/src/index.ts                                            *)

slugify(value) == stripHyphens(replaceRuns(trim(toLowerCase(Str(value))), FALSE))

\* the lower-cased value is compared without trimming it
normalizeRiskUntrimmed(value) ==
    LET normalized == toLowerCase(Str(value))
    IN  IF normalized \in {"avoid", "high", "severe", "very high"} THEN "avoid"
        ELSE IF normalized \in {"caution", "moderate", "medium", "unknown"} THEN "caution"
        ELSE "safe"

normalizeRisk(value) ==
    LET normalized == toLowerCase(trim(Str(value)))
    IN  IF normalized \in {"avoid", "high", "severe", "very high"} THEN "avoid"
        ELSE IF normalized \in {"caution", "moderate", "medium", "unknown"} THEN "caution"
        ELSE "safe"

RISK_ORDER(risk) == CASE risk = "safe" -> 1 [] risk = "caution" -> 2 [] risk = "avoid" -> 3

\* a getOverallRisk that forgets the comparison and keeps the last risk
getOverallRiskLast(ingredients) ==
    IF ingredients = <<>> THEN "safe"
    ELSE normalizeRisk(ingredients[Len(ingredients)].risk)

RECURSIVE getOverallRiskFrom(_, _)
getOverallRiskFrom(ingredients, top) ==
    IF ingredients = <<>> THEN top
    ELSE LET risk == normalizeRisk(Head(ingredients).risk)
         IN  getOverallRiskFrom(Tail(ingredients),
                                IF RISK_ORDER(risk) > RISK_ORDER(top) THEN risk ELSE top)

getOverallRisk(ingredients) == getOverallRiskFrom(ingredients, "safe")

---------------------------------------------------------------------------
(* apps/api/lib/gemini.ts: output hardening                                *)

\* A raw model item is [name, risk, notes], each a string or Undefined.
normalizeGeminiItem(item) ==
    LET name == trim(Str(item.name))
        notes == trim(Str(item.notes))
    IN  [name |-> name,
         slug |-> slugify(name),
         risk |-> normalizeRisk(item.risk),
         notes |-> IF notes # "" THEN notes ELSE Undefined]

\* a hardening that keeps the entries without a usable name
normalizeGeminiItemsKeepAll(items) == [i \in 1..Len(items) |-> normalizeGeminiItem(items[i])]

RECURSIVE normalizeGeminiItems(_)
normalizeGeminiItems(items) ==
    IF items = <<>> THEN <<>>
    ELSE IF trim(Str(Head(items).name)) = "" THEN normalizeGeminiItems(Tail(items))
    ELSE <<normalizeGeminiItem(Head(items))>> \o normalizeGeminiItems(Tail(items))

\* value is the parsed model output [ingredients, summary]; its ingredients
\* field is [isArray, items] (isArray is FALSE when the field is missing or
\* is not an array), its summary a string or Undefined.
normalizeGeminiOutput(value) ==
    [ingredients |-> IF value.ingredients.isArray
                     THEN normalizeGeminiItems(value.ingredients.items)
                     ELSE <<>>,
     summary |-> trim(Str(value.summary))]

---------------------------------------------------------------------------
(* apps/api/lib/firestore.ts: the Overlay record of a document             *)

\* snapshot.exists is false
NoDoc == [name |-> Undefined, risk_level |-> Undefined, risk |-> Undefined,
          regulatory_notes |-> Undefined, exists |-> FALSE]

\* null (getIngredientBySlug) and undefined under ?. (aiBySlug.get)
Null == [name |-> Undefined, slug |-> Undefined, risk |-> Undefined, notes |-> Undefined]

\* data is the document [name, risk_level, risk, regulatory_notes]
mapIngredientRecord(slug, data) ==
    [name |-> Or(data.name, slug),
     slug |-> slug,
     risk |-> normalizeRisk(Str(Or(data.risk_level, data.risk))),
     notes |-> Or(trim(Str(data.regulatory_notes)), Undefined)]

\* the collection holds a document for the slugs in DOMAIN store only
snapshot(slug) == IF slug \in DOMAIN store THEN store[slug] ELSE NoDoc

\* getIngredientBySlug once the read has succeeded
getIngredientBySlug(slug) ==
    LET normalizedSlug == slugify(slug)
    IN  IF normalizedSlug = "" THEN Null
        ELSE IF ~snapshot(normalizedSlug).exists THEN Null
        ELSE mapIngredientRecord(normalizedSlug, snapshot(normalizedSlug))

---------------------------------------------------------------------------
(* api/src/rules.js: the flags engine                                      *)

\* norm(s) for a string or Undefined
norm(s) == trim(toLowerCase(Str(s)))

\* terms.some((x) => t.includes(x))
hasAny(t, terms) ==
    LET lowered == norm(t)
    IN  \E k \in 1..Len(terms) : includes(lowered, terms[k])

\* Array.prototype.join
RECURSIVE join(_, _)
join(list, sep) ==
    IF list = <<>> THEN ""
    ELSE IF Len(list) = 1 THEN list[1]
    ELSE list[1] \o sep \o join(Tail(list), sep)

\* Array.isArray(a) ? a : [] for a field [isArray, items]
arrayOrEmpty(a) == IF a.isArray THEN a.items ELSE <<>>

\* a ?? d for a preference value: d applies to undefined and null only
Nullish(v, d) == IF v.type \in {"undefined", "null"} THEN d ELSE ~Falsy(v)

\* defaults that switch every preference on
prefsOfAllOn(given) ==
    [fragranceFree |-> Nullish(given.fragranceFree, TRUE),
     bleachFree |-> Nullish(given.bleachFree, TRUE),
     ammoniaFree |-> Nullish(given.ammoniaFree, TRUE),
     avoidQuats |-> Nullish(given.avoidQuats, TRUE),
     sensitiveMode |-> Nullish(given.sensitiveMode, TRUE)]

\* rules.js 34-40
prefsOf(given) ==
    [fragranceFree |-> Nullish(given.fragranceFree, TRUE),
     bleachFree |-> Nullish(given.bleachFree, FALSE),
     ammoniaFree |-> Nullish(given.ammoniaFree, FALSE),
     avoidQuats |-> Nullish(given.avoidQuats, FALSE),
     sensitiveMode |-> Nullish(given.sensitiveMode, FALSE)]

\* rules.js 29
warningsTextOf(p) ==
    LET warnings == arrayOrEmpty(p.warnings)
    IN  join([i \in 1..Len(warnings) |-> norm(warnings[i])], " | ")

\* rules.js 25-31
allTextOf(p) ==
    join(<<norm(p.name_guess), norm(p.ingredients_raw),
           join(arrayOrEmpty(p.ingredients_list), " "), warningsTextOf(p)>>, " | ")

\* rules.js 17-19: the flag addFlag pushes
Flag(id, title, reason, level) ==
    [id |-> id, title |-> title, reason |-> reason, level |-> level]

\* One rule of scoreCleaningProduct: its condition, the flag it pushes and
\* the tip it pushes ("" when the rule pushes none).
Rule(fires, flag, tip) == [fires |-> fires, flag |-> flag, tip |-> tip]

bleachTerms == <<"sodium hypochlorite", "hypochlorite", "chlorine bleach", "bleach">>
ammoniaTerms == <<"ammonia", "ammonium hydroxide">>
quatTerms ==
    <<"benzalkonium chloride", "didecyldimethylammonium chloride",
      "alkyl dimethyl benzyl ammonium chloride", "quat">>
corrosiveTerms == <<"corrosive", "causes burns", "severe skin burns", "eye damage">>

\* a rule list collected from the last rule to the first
RECURSIVE flagsFromBackwards(_, _)
flagsFromBackwards(rs, k) ==
    IF k > Len(rs) THEN <<>>
    ELSE flagsFromBackwards(rs, k + 1) \o (IF rs[k].fires THEN <<rs[k].flag>> ELSE <<>>)

\* rules.js 42-153: the nine rules in program order
rules(allText, warningsText, prefs) ==
    <<Rule(prefs.fragranceFree /\ hasAny(allText, <<"fragrance", "parfum", "perfume">>),
           Flag("contains_fragrance", "Contains fragrance",
                "Fragrance can be irritating for sensitive users. "
                    \o "Consider fragrance free alternatives.",
                "info"),
           ""),
      Rule(prefs.bleachFree /\ hasAny(allText, bleachTerms),
           Flag("contains_bleach", "Contains chlorine bleach",
                "Bleach is effective but can be harsh and can form harmful gases "
                    \o "if mixed with acids or ammonia.",
                "caution"),
           "Never mix bleach with acids (vinegar) or ammonia. Ventilate well."),
      Rule(prefs.ammoniaFree /\ hasAny(allText, ammoniaTerms),
           Flag("contains_ammonia", "Contains ammonia",
                "Ammonia can be irritating and should never be mixed with bleach.",
                "caution"),
           "Never mix ammonia with bleach. Ventilate well."),
      Rule(prefs.avoidQuats /\ hasAny(allText, quatTerms),
           Flag("contains_quats", "Contains quaternary ammonium compounds",
                "Some people prefer to avoid quats due to sensitivity concerns "
                    \o "and residues on surfaces.",
                "info"),
           ""),
      Rule(hasAny(warningsText, corrosiveTerms),
           Flag("corrosive_warning", "Corrosive or burn warning",
                "Label indicates corrosive risk. "
                    \o "Use gloves and avoid contact with skin and eyes.",
                "caution"),
           "Use gloves. Avoid splashes. Keep away from children and pets."),
      Rule(hasAny(allText, <<"sodium hydroxide", "lye", "caustic">>),
           Flag("strong_alkali", "Strong alkaline ingredient",
                "Strong alkalis can cause burns and should be handled carefully.",
                "caution"),
           "Avoid contact. Rinse thoroughly. Store securely."),
      Rule(hasAny(allText, <<"hydrochloric acid", "muriatic", "sulfuric acid",
                             "phosphoric acid">>),
           Flag("strong_acid", "Strong acid ingredient",
                "Strong acids can cause burns and release fumes. Use with ventilation.",
                "caution"),
           "Ventilate well. Avoid mixing with bleach."),
      Rule(hasAny(allText, <<"2-butoxyethanol", "glycol ether", "solvent">>),
           Flag("solvent_based", "Solvent based cleaner",
                "Solvents can be irritating. "
                    \o "Consider low odor or soap based alternatives if sensitive.",
                "info"),
           IF prefs.sensitiveMode THEN "Ventilate well and avoid prolonged exposure."
           ELSE ""),
      Rule(hasAny(allText, <<"aerosol", "propellant", "pressurized">>),
           Flag("aerosol", "Aerosol product",
                "Aerosols can increase inhalation exposure. "
                    \o "Consider pump sprays or liquids.",
                "info"),
           "")>>

\* the flags pushed by the rules from position k on, in program order
RECURSIVE flagsFrom(_, _)
flagsFrom(rs, k) ==
    IF k > Len(rs) THEN <<>>
    ELSE (IF rs[k].fires THEN <<rs[k].flag>> ELSE <<>>) \o flagsFrom(rs, k + 1)

\* a tip for every rule that fires, with or without a tip of its own
RECURSIVE tipsFromEveryFlag(_, _)
tipsFromEveryFlag(rs, k) ==
    IF k > Len(rs) THEN <<>>
    ELSE (IF rs[k].fires THEN <<rs[k].flag.id>> ELSE <<>>) \o tipsFromEveryFlag(rs, k + 1)

\* the tips pushed by the rules from position k on, in program order
RECURSIVE tipsFrom(_, _)
tipsFrom(rs, k) ==
    IF k > Len(rs) THEN <<>>
    ELSE (IF rs[k].fires /\ rs[k].tip # "" THEN <<rs[k].tip>> ELSE <<>>)
         \o tipsFrom(rs, k + 1)

\* an escalation that needs no corrosive or strong_ flag
overallOfCountOnly(flags) ==
    IF Len(flags) >= 3 THEN "consider_swap"
    ELSE IF \E i \in 1..Len(flags) : flags[i].level = "caution" THEN "use_with_care"
    ELSE "keep"

\* rules.js 155-160
overallOf(flags) ==
    IF Len(flags) >= 3
       /\ \E i \in 1..Len(flags) :
            includes(flags[i].id, "corrosive") \/ includes(flags[i].id, "strong_")
    THEN "consider_swap"
    ELSE IF \E i \in 1..Len(flags) : flags[i].level = "caution" THEN "use_with_care"
    ELSE "keep"

\* rules.js 21-163
scoreCleaningProduct(p, given) ==
    LET rs == rules(allTextOf(p), warningsTextOf(p), prefsOf(given))
    IN  [flags |-> flagsFrom(rs, 1),
         handlingTips |-> tipsFrom(rs, 1),
         overall |-> overallOf(flagsFrom(rs, 1))]

---------------------------------------------------------------------------
(* api/src/swaps.js: swap suggestions                                      *)

Suggestion(title, why) == [title |-> title, why |-> why, type |-> "pattern"]

BaselineTitle == "Microfiber cloth + warm soapy water"

\* One pattern of getSwapSuggestions: its condition and what it pushes.
Pattern(matches, pushes) == [matches |-> matches, pushes |-> pushes]

\* swaps.js 137-192: the patterns in program order, the baseline last
patterns(ids) ==
    <<Pattern("contains_bleach" \in ids,
              <<Suggestion("Oxygen based cleaner (non chlorine)",
                           "Often effective for whitening and stain removal "
                               \o "without chlorine bleach."),
                Suggestion("Hydrogen peroxide bathroom cleaner",
                           "Good for bathrooms, with less harsh fumes for many users.")>>),
      Pattern("contains_fragrance" \in ids,
              <<Suggestion("Fragrance free all purpose cleaner",
                           "Reduces scent exposure for sensitive users."),
                Suggestion("Fragrance free dish soap or laundry detergent",
                           "Cuts fragrance across common sources.")>>),
      Pattern("aerosol" \in ids,
              <<Suggestion("Pump spray alternative",
                           "Less airborne mist than aerosols.")>>),
      Pattern("contains_quats" \in ids,
              <<Suggestion("Soap based cleaner",
                           "Good everyday option if you prefer to avoid quats.")>>),
      Pattern("strong_acid" \in ids \/ "strong_alkali" \in ids
                  \/ "corrosive_warning" \in ids,
              <<Suggestion("Milder pH cleaner for routine use",
                           "Use strong products only when needed, "
                               \o "keep routine cleaning gentler.")>>),
      Pattern(TRUE,
              <<Suggestion(BaselineTitle,
                           "Often sufficient for many surfaces and reduces chemical load.")>>)>>

\* what the patterns from position k on push, in program order
RECURSIVE pushedFrom(_, _)
pushedFrom(ps, k) ==
    IF k > Len(ps) THEN <<>>
    ELSE (IF ps[k].matches THEN ps[k].pushes ELSE <<>>) \o pushedFrom(ps, k + 1)

\* a trim that keeps five entries
sliceFive(list) == SubSeq(list, 1, IF Len(list) < 5 THEN Len(list) ELSE 5)

\* swaps.js 195: suggestions.slice(0, 4)
sliceFour(list) == SubSeq(list, 1, IF Len(list) < 4 THEN Len(list) ELSE 4)

\* swaps.js 130-196; scoredFlags is scored?.flags as [isArray, items]
getSwapSuggestions(scoredFlags) ==
    LET flags == arrayOrEmpty(scoredFlags)
        ids == {flags[i].id : i \in 1..Len(flags)}
    IN  sliceFour(pushedFrom(patterns(ids), 1))

---------------------------------------------------------------------------
(* The analyze route of the flags API: one product is scored, then its     *)
(* swap suggestions are computed                                           *)

NoProduct ==
    [name_guess |-> Undefined, ingredients_raw |-> Undefined,
     ingredients_list |-> [isArray |-> FALSE, items |-> <<>>],
     warnings |-> [isArray |-> FALSE, items |-> <<>>]]

\* preferences is {} or undefined
NoPreferences ==
    [fragranceFree |-> JsUndefined, bleachFree |-> JsUndefined,
     ammoniaFree |-> JsUndefined, avoidQuats |-> JsUndefined,
     sensitiveMode |-> JsUndefined]

NoScore == [flags |-> <<>>, handlingTips |-> <<>>, overall |-> Undefined]

idleRules ==
    /\ rpc = "idle"
    /\ product = NoProduct
    /\ preferences = NoPreferences
    /\ scored = NoScore
    /\ swaps = <<>>

\* the chat route before a request arrives
NoChatBody == [question |-> Undefined, ingredients |-> [isArray |-> FALSE, items |-> <<>>]]

NoChatAnswer == [answer |-> "", sourceTitles |-> <<>>]

NoChatReply == [status |-> 0, error |-> "", answer |-> "", sources |-> <<>>]

idleChat ==
    /\ cpc = "idle"
    /\ chatBody = NoChatBody
    /\ chatSources = <<>>
    /\ chatAnswer = NoChatAnswer
    /\ chatReply = NoChatReply

idleRisk ==
    /\ npc = "idle"
    /\ riskValue = Undefined
    /\ riskLevel = Undefined

idleHandle ==
    /\ env = [json |-> Undefined, path |-> Undefined]
    /\ file = Undefined
    /\ cachedDb = 0
    /\ apps = 0
    /\ handles = 0
    /\ calls = <<>>

NoScanResult == [ingredients |-> <<>>, overallRisk |-> Undefined, summary |-> Undefined]

NoRouteReply == [status |-> 0, error |-> "", result |-> NoScanResult]

idleRoute ==
    /\ hpc = "idle"
    /\ requestBody = ""
    /\ routeReply = NoRouteReply

NoMock ==
    [throws |-> TRUE,
     raw |-> [ingredients |-> [isArray |-> FALSE, items |-> <<>>], summary |-> Undefined]]

idleTrip ==
    /\ round = 0
    /\ mock = NoMock
    /\ firstResult = NoScanResult

\* ocrConfidence null
NoConfidence == 0 - 1

\* App.tsx 162-193: the initial state of the component
idleMobile ==
    /\ mode = "camera"
    /\ mText = ""
    /\ isAnalyzing = FALSE
    /\ mResult = 0
    /\ history = <<>>
    /\ frontUri = 0
    /\ backUri = 0
    /\ productName = ""
    /\ ocrText = ""
    /\ ocrConfidence = NoConfidence
    /\ ocrStatus = "idle"
    /\ ocrAccepted = FALSE
    /\ captures = {}
    /\ backOcrs = {}
    /\ frontOcrs = {}
    /\ scans = <<>>
    /\ photos = 0
    /\ sent = 0
    /\ acceptedText = ""
    /\ frontRead = ""

idleOthers ==
    /\ idleChat
    /\ idleRisk
    /\ idleHandle
    /\ idleRoute
    /\ idleTrip
    /\ idleMobile

---------------------------------------------------------------------------
(* apps/api/lib/scan.ts: helpers of createScanResult                       *)

RECURSIVE CountRisk(_, _)
CountRisk(ingredients, risk) ==
    IF ingredients = <<>> THEN 0
    ELSE (IF Head(ingredients).risk = risk THEN 1 ELSE 0)
         + CountRisk(Tail(ingredients), risk)

summarizeFromIngredients(ingredients) ==
    IF Len(ingredients) = 0
    THEN "No recognizable ingredients were found in this scan."
    ELSE "Detected " \o ToString(Len(ingredients)) \o " ingredient(s): "
         \o ToString(CountRisk(ingredients, "avoid")) \o " avoid, "
         \o ToString(CountRisk(ingredients, "caution")) \o " caution, "
         \o ToString(CountRisk(ingredients, "safe")) \o " safe."

IsSeparator(c) == c \in {",", ";", "\n"}

\* text.split(/[,;\n]/g)
RECURSIVE split(_, _)
split(s, piece) ==
    IF s = "" THEN <<piece>>
    ELSE IF IsSeparator(CharAt(s, 1)) THEN <<piece>> \o split(SubSeq(s, 2, Len(s)), "")
    ELSE split(SubSeq(s, 2, Len(s)), piece \o CharAt(s, 1))

\* .map((item) => String(item || "").trim()).filter(Boolean)
RECURSIVE trimAndFilter(_)
trimAndFilter(items) ==
    IF items = <<>> THEN <<>>
    ELSE LET item == trim(Str(Head(items)))
         IN  (IF item # "" THEN <<item>> ELSE <<>>) \o trimAndFilter(Tail(items))

FallbackSummary == "Fallback parser used because AI extraction was unavailable."

\* a fallback that leaves the risk to normalizeRisk("")
fallbackGeminiDataUnrated(t) ==
    LET names == trimAndFilter(split(t, ""))
    IN  [ingredients |-> [i \in 1..Len(names) |->
                            [name |-> names[i], slug |-> slugify(names[i]),
                             risk |-> normalizeRisk(""), notes |-> Undefined]],
         summary |-> FallbackSummary]

\* the catch branch of the text call (scan.ts 50-63)
fallbackGeminiData(t) ==
    LET names == trimAndFilter(split(t, ""))
    IN  [ingredients |-> [i \in 1..Len(names) |->
                            [name |-> names[i], slug |-> slugify(names[i]),
                             risk |-> "caution", notes |-> Undefined]],
         summary |-> FallbackSummary]

EmptyGeminiData == [ingredients |-> <<>>, summary |-> ""]

\* locals of createScanResult computed from the argument (scan.ts 35-45)
text == trim(Str(input.text))

\* input.ingredients is <<>> when the caller passes no array
directIngredients == trimAndFilter(input.ingredients)

\* input.geminiData when the caller passes none
NoGeminiData == [ingredients |-> <<>>, summary |-> Undefined]

\* a test that forgets the precomputed extraction
shouldCallGeminiIgnoringData == ~input.skipAi

shouldCallGemini == input.geminiData = NoGeminiData /\ ~input.skipAi

\* scan.ts 72-75
sourceNames ==
    IF Len(geminiData.ingredients) > 0
    THEN [i \in 1..Len(geminiData.ingredients) |-> geminiData.ingredients[i].name]
    ELSE directIngredients

\* a dedupe keyed by the name itself instead of its slug
RECURSIVE dedupeByName(_, _)
dedupeByName(names, seen) ==
    IF names = <<>> THEN <<>>
    ELSE IF slugify(Head(names)) = "" \/ Head(names) \in seen
         THEN dedupeByName(Tail(names), seen)
    ELSE <<Head(names)>> \o dedupeByName(Tail(names), seen \cup {Head(names)})

\* scan.ts 77-83: filter with the seen set
RECURSIVE dedupe(_, _)
dedupe(names, seen) ==
    IF names = <<>> THEN <<>>
    ELSE LET slug == slugify(Head(names))
         IN  IF slug = "" \/ slug \in seen THEN dedupe(Tail(names), seen)
             ELSE <<Head(names)>> \o dedupe(Tail(names), seen \cup {slug})

\* scan.ts 85: new Map(entries) keeps, for a repeated key, the last entry
aiBySlug(slug) ==
    LET items == geminiData.ingredients
        hits == {i \in 1..Len(items) : items[i].slug = slug}
    IN  IF hits = {} THEN Null
        ELSE items[CHOOSE i \in hits : \A j \in hits : j <= i]

\* an Overlay merge in which an AI risk, when there is one, wins
fromStoreIngredientAiFirst(fromStore, ai) ==
    [name |-> fromStore.name,
     slug |-> fromStore.slug,
     risk |-> normalizeRisk(Or(ai.risk, fromStore.risk)),
     notes |-> Or(fromStore.notes, ai.notes)]

\* scan.ts 97-102: the ingredient built from an Overlay record
fromStoreIngredient(fromStore, ai) ==
    [name |-> fromStore.name,
     slug |-> fromStore.slug,
     risk |-> normalizeRisk(fromStore.risk),
     notes |-> Or(fromStore.notes, ai.notes)]

\* scan.ts 109-114: the ingredient built without an Overlay record
fromAiIngredient(name, ai) ==
    [name |-> name,
     slug |-> slugify(name),
     risk |-> normalizeRisk(Or(ai.risk, "caution")),
     notes |-> ai.notes]

---------------------------------------------------------------------------
(* Bounds and the values requests, model replies and documents are drawn   *)
(* from                                                                    *)

\* names held by one scenario: the request's text and ingredient list and
\* the Extractor's reply together
MaxItems == 3

InputNames == {"Bleach", " BLEACH ", "Vinegar", "!!"}

AiItems ==
    {[name |-> "Bleach", risk |-> "avoid", notes |-> "Corrosive."],
     [name |-> "bleach ", risk |-> "Safe", notes |-> ""],
     [name |-> "Vinegar", risk |-> Undefined, notes |-> " Mild acid. "]}

AiSummaries == {Undefined, " Label read. "}

ListsUpTo(S, n) == UNION {[1..k -> S] : k \in 0..n}

\* parsed model outputs with at most n items
RawOutputs(n) ==
    {[ingredients |-> [isArray |-> TRUE, items |-> items], summary |-> summary] :
        items \in ListsUpTo(AiItems, n), summary \in AiSummaries}
    \cup {[ingredients |-> [isArray |-> FALSE, items |-> <<>>], summary |-> Undefined]}

DocBleachNamed ==
    [name |-> "Sodium Hypochlorite", risk_level |-> "High", risk |-> Undefined,
     regulatory_notes |-> " Restricted. ", exists |-> TRUE]

DocBare ==
    [name |-> Undefined, risk_level |-> Undefined, risk |-> "moderate",
     regulatory_notes |-> Undefined, exists |-> TRUE]

EmptyStore == [slug \in {} |-> NoDoc]

\* the collections a configured Overlay may hold
Stores ==
    {"bleach" :> DocBleachNamed,
     ("bleach" :> DocBleachNamed) @@ ("vinegar" :> DocBare)}

Separators == <<", ", ";", "\n">>

\* a label text listing the names, separated by comma, semicolon, newline
RECURSIVE joinNames(_, _)
joinNames(names, k) ==
    IF names = <<>> THEN ""
    ELSE IF Len(names) = 1 THEN names[1]
    ELSE names[1] \o Separators[(k % 3) + 1] \o joinNames(Tail(names), k + 1)

NamesOf(data) == [i \in 1..Len(data.ingredients) |-> data.ingredients[i].name]

\* the argument objects: text and/or names as the scan routes pass them,
\* names or text with skipAi, or the precomputed extraction with its names as
\* the image route passes it, with and without a text beside it
Inputs ==
    {[text |-> Or(joinNames(tl, 0), Undefined), ingredients |-> nl,
      geminiData |-> NoGeminiData, skipAi |-> FALSE] :
        tl \in ListsUpTo(InputNames, MaxItems),
        nl \in ListsUpTo(InputNames, MaxItems)}
    \cup
    {[text |-> Undefined, ingredients |-> nl,
      geminiData |-> NoGeminiData, skipAi |-> TRUE] :
        nl \in ListsUpTo(InputNames, MaxItems)}
    \cup
    {[text |-> Undefined, ingredients |-> NamesOf(normalizeGeminiOutput(raw)),
      geminiData |-> normalizeGeminiOutput(raw), skipAi |-> FALSE] :
        raw \in RawOutputs(MaxItems)}
    \cup
    {[text |-> joinNames(tl, 0), ingredients |-> <<>>,
      geminiData |-> NoGeminiData, skipAi |-> TRUE] :
        tl \in ListsUpTo(InputNames, MaxItems) \ {<<>>}}
    \cup
    {[text |-> "Bleach", ingredients |-> NamesOf(normalizeGeminiOutput(raw)),
      geminiData |-> normalizeGeminiOutput(raw), skipAi |-> FALSE] :
        raw \in RawOutputs(MaxItems - 1)}

\* number of names the request holds
InputSize(in) ==
    Len(in.ingredients)
    + (IF in.text = Undefined THEN 0 ELSE Len(trimAndFilter(split(in.text, ""))))

---------------------------------------------------------------------------
(* createScanResult                                                        *)

ScanInit ==
    /\ idleOthers
    /\ pc = "start"
    /\ input \in {in \in Inputs : InputSize(in) <= MaxItems}
    /\ apiKeySet \in BOOLEAN
    /\ fsConfigured \in BOOLEAN
    \* without credentials the collection is never read
    /\ store \in IF fsConfigured THEN Stores ELSE {EmptyStore}
    \* scan.ts 40-44
    /\ geminiData = IF input.geminiData # NoGeminiData THEN input.geminiData
                    ELSE EmptyGeminiData
    /\ aiCall = "none"
    /\ aiThrew = FALSE
    /\ uniqueNames = <<>>
    /\ slots = <<>>
    /\ lookup = <<>>
    /\ result = [ingredients |-> <<>>, overallRisk |-> Undefined, summary |-> Undefined]
    /\ gpc = "idle" /\ attempt = 0 /\ requests = <<>> /\ delayMs = <<>> /\ clock = 0
    /\ outcome = [kind |-> "pending", message |-> "", status |-> 0]
    /\ output = JsUndefined
    /\ scanOutput = NoGeminiData
    /\ idleRules

\* what the Extractor may reply to this request
Replies == RawOutputs(MaxItems - InputSize(input))

\* scan.ts 47-49: analyzeWithGemini({text}) resolves
GeminiTextOk ==
    /\ pc = "start" /\ shouldCallGemini /\ text # ""
    /\ apiKeySet
    /\ \E raw \in Replies : geminiData' = normalizeGeminiOutput(raw)
    /\ aiCall' = "text"
    /\ aiThrew' = FALSE
    /\ pc' = "assemble"
    /\ UNCHANGED <<input, apiKeySet, fsConfigured, store, uniqueNames, slots, lookup,
                   result, geminiVars, rulesVars, otherVars>>

\* scan.ts 50-63: analyzeWithGemini({text}) throws (no key, network, non-2xx,
\* malformed JSON)
GeminiTextFail ==
    /\ pc = "start" /\ shouldCallGemini /\ text # ""
    /\ geminiData' = fallbackGeminiData(text)
    /\ aiCall' = "text"
    /\ aiThrew' = TRUE
    /\ pc' = "assemble"
    /\ UNCHANGED <<input, apiKeySet, fsConfigured, store, uniqueNames, slots, lookup,
                   result, geminiVars, rulesVars, otherVars>>

\* scan.ts 64-66
GeminiNamesOk ==
    /\ pc = "start" /\ shouldCallGemini /\ text = ""
    /\ Len(directIngredients) > 0 /\ apiKeySet
    /\ \E raw \in Replies : geminiData' = normalizeGeminiOutput(raw)
    /\ aiCall' = "names"
    /\ aiThrew' = FALSE
    /\ pc' = "assemble"
    /\ UNCHANGED <<input, apiKeySet, fsConfigured, store, uniqueNames, slots, lookup,
                   result, geminiVars, rulesVars, otherVars>>

\* a names call whose failure is not caught
GeminiNamesFailUncaught ==
    /\ pc = "start" /\ shouldCallGemini /\ text = ""
    /\ Len(directIngredients) > 0 /\ apiKeySet
    /\ aiCall' = "names"
    /\ aiThrew' = TRUE
    /\ pc' = "thrown"
    /\ UNCHANGED <<input, apiKeySet, fsConfigured, store, geminiData, uniqueNames,
                   slots,
                   lookup, result, geminiVars, rulesVars, otherVars>>

\* scan.ts 67-69
GeminiNamesFail ==
    /\ pc = "start" /\ shouldCallGemini /\ text = ""
    /\ Len(directIngredients) > 0 /\ apiKeySet
    /\ geminiData' = EmptyGeminiData
    /\ aiCall' = "names"
    /\ aiThrew' = TRUE
    /\ pc' = "assemble"
    /\ UNCHANGED <<input, apiKeySet, fsConfigured, store, uniqueNames, slots, lookup,
                   result, geminiVars, rulesVars, otherVars>>

\* neither branch of scan.ts 47-70 is taken
NoGeminiCall ==
    /\ pc = "start"
    /\ ~(shouldCallGemini /\ text # "")
    /\ ~(shouldCallGemini /\ Len(directIngredients) > 0 /\ apiKeySet)
    /\ pc' = "assemble"
    /\ UNCHANGED <<input, apiKeySet, fsConfigured, store, geminiData, aiCall, aiThrew,
                   uniqueNames, slots, lookup, result, geminiVars, rulesVars, otherVars>>

\* scan.ts 72-93: dedupe, then start one async function per unique name; each
\* runs to its first await (the Overlay read), or to its end when Firestore
\* is not configured
Assemble ==
    /\ pc = "assemble"
    /\ LET names == dedupe(sourceNames, {})
       IN  /\ uniqueNames' = names
           /\ slots' = [i \in 1..Len(names) |->
                          IF fsConfigured THEN Null
                          ELSE fromAiIngredient(names[i], aiBySlug(slugify(names[i])))]
           /\ lookup' = [i \in 1..Len(names) |->
                           IF fsConfigured THEN "pending" ELSE "skipped"]
    /\ pc' = "lookups"
    /\ UNCHANGED <<input, apiKeySet, fsConfigured, store, geminiData, aiCall,
                   aiThrew, result,
                   geminiVars, rulesVars, otherVars>>

\* scan.ts 95-103 and 109-114: the read of slot i resolves
LookupReturns(i) ==
    /\ pc = "lookups" /\ lookup[i] = "pending"
    /\ LET slug == slugify(uniqueNames[i])
           ai == aiBySlug(slug)
           fromStore == getIngredientBySlug(slug)
       IN  IF fromStore # Null
           THEN /\ slots' = [slots EXCEPT ![i] = fromStoreIngredient(fromStore, ai)]
                /\ lookup' = [lookup EXCEPT ![i] = "record"]
           ELSE /\ slots' = [slots EXCEPT ![i] = fromAiIngredient(uniqueNames[i], ai)]
                /\ lookup' = [lookup EXCEPT ![i] = "none"]
    /\ UNCHANGED <<pc, input, apiKeySet, fsConfigured, store, geminiData, aiCall,
                   aiThrew,
                   uniqueNames, result, geminiVars, rulesVars, otherVars>>

\* a lookup whose failure is not caught: the rejection leaves Promise.all
LookupFailsUncaught(i) ==
    /\ pc = "lookups" /\ lookup[i] = "pending"
    /\ lookup' = [lookup EXCEPT ![i] = "failed"]
    /\ pc' = "thrown"
    /\ UNCHANGED <<input, apiKeySet, fsConfigured, store, geminiData, aiCall, aiThrew,
                   uniqueNames, slots, result, geminiVars, rulesVars, otherVars>>

\* scan.ts 104-114: the read of slot i throws or rejects
LookupFails(i) ==
    /\ pc = "lookups" /\ lookup[i] = "pending"
    /\ LET slug == slugify(uniqueNames[i])
       IN  slots' = [slots EXCEPT ![i] = fromAiIngredient(uniqueNames[i], aiBySlug(slug))]
    /\ lookup' = [lookup EXCEPT ![i] = "failed"]
    /\ UNCHANGED <<pc, input, apiKeySet, fsConfigured, store, geminiData, aiCall,
                   aiThrew,
                   uniqueNames, result, geminiVars, rulesVars, otherVars>>

\* scan.ts 116-124: Promise.all resolves; summary, overall risk, return
Return ==
    /\ pc = "lookups"
    /\ \A i \in 1..Len(lookup) : lookup[i] # "pending"
    /\ result' = [ingredients |-> slots,
                  overallRisk |-> getOverallRisk(slots),
                  summary |-> Or(geminiData.summary, summarizeFromIngredients(slots))]
    /\ pc' = "done"
    /\ UNCHANGED <<input, apiKeySet, fsConfigured, store, geminiData, aiCall, aiThrew,
                   uniqueNames, slots, lookup, geminiVars, rulesVars, otherVars>>

ScanNext ==
    \/ GeminiTextOk
    \/ GeminiTextFail
    \/ GeminiNamesOk
    \/ GeminiNamesFail
    \/ NoGeminiCall
    \/ Assemble
    \/ \E i \in 1..Len(lookup) : LookupReturns(i)
    \/ \E i \in 1..Len(lookup) : LookupFails(i)
    \/ Return

ScanSpec == ScanInit /\ [][ScanNext]_vars

---------------------------------------------------------------------------
(* Properties of createScanResult                                          *)

Returned == pc = "done"

ExtractorFailedOnText == aiCall = "text" /\ aiThrew

Severity(risk) == CASE risk = "safe" -> 1 [] risk = "caution" -> 2 [] risk = "avoid" -> 3

\* the Overlay document read for result ingredient i
DocOf(i) == store[result.ingredients[i].slug]

\* the items of the extraction with this slug, in order
AiIndices(slug) ==
    {j \in 1..Len(geminiData.ingredients) : geminiData.ingredients[j].slug = slug}

\* C1 (as amended): when the Extractor call on the text fails, the scan does
\* not throw (it is assembling, awaiting lookups or has returned); the
\* summary is the fallback notice; every ingredient for which no
\* Overlay record was found (store not configured, lookup failed, no document)
\* has risk "caution", and an ingredient with an Overlay record has that
\* record's normalized risk.
C1_FallbackCautionUnlessOverlay ==
    ExtractorFailedOnText =>
        /\ pc \in {"assemble", "lookups", "done"}
        /\ Returned =>
            /\ result.summary = "Fallback parser used because AI extraction was unavailable."
            /\ \A i \in 1..Len(result.ingredients) :
                 IF lookup[i] = "record"
                 THEN result.ingredients[i].risk
                        = normalizeRisk(Or(DocOf(i).risk_level, DocOf(i).risk))
                 ELSE result.ingredients[i].risk = "caution"

\* C1 witness: a fallback scan returned two ingredients, one overridden by the
\* Overlay and one whose lookup failed.
C1_Witness ==
    /\ Returned /\ ExtractorFailedOnText
    /\ Len(result.ingredients) = 2
    /\ \E i, j \in 1..2 : lookup[i] = "record" /\ lookup[j] = "failed"

\* C1 as stated: after a failed Extractor call every ingredient has risk
\* "caution", whatever the Overlay holds.
C1_FallbackAllCaution ==
    (ExtractorFailedOnText /\ Returned) =>
        /\ result.summary = "Fallback parser used because AI extraction was unavailable."
        /\ \A i \in 1..Len(result.ingredients) : result.ingredients[i].risk = "caution"

\* the ingredient a slot gets when the Overlay has no record for its name:
\* the name as listed, its slug, the extraction's risk (default "caution")
\* and notes
WithoutRecord(i) ==
    LET slug == slugify(uniqueNames[i])
        ai == aiBySlug(slug)
    IN  [name |-> uniqueNames[i], slug |-> slug,
         risk |-> IF ai = Null THEN "caution" ELSE ai.risk,
         notes |-> ai.notes]

\* C2: a failed Overlay lookup never aborts the scan (the scan is never in a
\* thrown state and returns the slots as its ingredients), and the slot of that
\* slug holds exactly what it holds when the lookup finds no record; slots
\* whose own lookup found a record keep the record's name.
C2_LookupFailureIsNoOverride ==
    /\ pc \in {"start", "assemble", "lookups", "done"}
    /\ \A i \in 1..Len(lookup) :
        /\ lookup[i] \in {"failed", "none"} => slots[i] = WithoutRecord(i)
        /\ lookup[i] = "record" =>
             slots[i].name = Or(store[slugify(uniqueNames[i])].name, slugify(uniqueNames[i]))
    /\ Returned => result.ingredients = slots

\* C2 witness: a returned scan in which one lookup failed for a slug the
\* store holds and another lookup found its record.
C2_Witness ==
    /\ Returned
    /\ \E i, j \in 1..Len(lookup) :
        /\ lookup[i] = "failed" /\ slugify(uniqueNames[i]) \in DOMAIN store
        /\ lookup[j] = "record"

\* C3 (as amended): per slug the order is Overlay, AI record, default.  With
\* an Overlay record the risk is the record's normalized risk; the notes are
\* the record's notes when it has any and otherwise the AI notes.  With no
\* Overlay record but an AI record, an AI risk and notes of that slug stand.
\* With neither, the risk is "caution" and there are no notes.
C3_ResolutionOrder ==
    Returned =>
        \A i \in 1..Len(result.ingredients) :
            LET ing == result.ingredients[i]
                slug == slugify(uniqueNames[i])
            IN  IF lookup[i] = "record"
                THEN /\ ing.risk = normalizeRisk(Or(store[slug].risk_level, store[slug].risk))
                     /\ IF trim(Str(store[slug].regulatory_notes)) # ""
                        THEN ing.notes = trim(store[slug].regulatory_notes)
                        ELSE \/ \E j \in AiIndices(slug) :
                                  ing.notes = geminiData.ingredients[j].notes
                             \/ AiIndices(slug) = {} /\ ing.notes = Undefined
                ELSE IF AiIndices(slug) # {}
                THEN \E j \in AiIndices(slug) :
                        /\ ing.risk = geminiData.ingredients[j].risk
                        /\ ing.notes = geminiData.ingredients[j].notes
                ELSE ing.risk = "caution" /\ ing.notes = Undefined

\* C3 witness: one returned scan resolves a slug from the Overlay although
\* the extraction rates it differently, and another slug from the extraction.
C3_Witness ==
    /\ Returned
    /\ \E i, k \in 1..Len(result.ingredients) :
        /\ lookup[i] = "record"
        /\ \E j \in AiIndices(slugify(uniqueNames[i])) :
              geminiData.ingredients[j].risk # result.ingredients[i].risk
        /\ lookup[k] # "record" /\ AiIndices(slugify(uniqueNames[k])) # {}

\* C3 as stated: with an Overlay record the notes are the Overlay's notes,
\* whatever the AI-derived values are.
C3_OverlayNotesAlways ==
    Returned =>
        \A i \in 1..Len(result.ingredients) :
            lookup[i] = "record" =>
                /\ result.ingredients[i].risk
                     = normalizeRisk(Or(DocOf(i).risk_level, DocOf(i).risk))
                /\ result.ingredients[i].notes
                     = Or(trim(Str(DocOf(i).regulatory_notes)), Undefined)

\* C4: overallRisk is the maximum severity over the result's ingredients, and
\* "safe" when there are none.
C4_OverallRiskIsMax ==
    Returned =>
        LET risks == {result.ingredients[i].risk : i \in 1..Len(result.ingredients)}
        IN  /\ risks \subseteq {"safe", "caution", "avoid"}
            /\ result.overallRisk \in {"safe", "caution", "avoid"}
            /\ risks = {} => result.overallRisk = "safe"
            /\ risks # {} =>
                /\ result.overallRisk \in risks
                /\ \A r \in risks : Severity(r) <= Severity(result.overallRisk)

\* C4 witness: the most severe ingredient is not the last one.
C4_Witness ==
    /\ Returned
    /\ Len(result.ingredients) = 2
    /\ result.ingredients[1].risk = "avoid"
    /\ result.ingredients[2].risk = "safe"
    /\ lookup[1] = "record"

\* C5 as stated: every result ingredient's slug is slugify of its own name,
\* also when its fields come from an Overlay record.
C5_SlugIsSlugOfName ==
    Returned =>
        \A i \in 1..Len(result.ingredients) :
            result.ingredients[i].slug = slugify(result.ingredients[i].name)

\* positions of the source names that are the first of a non-empty slug
FirstOccurrences(names) ==
    {i \in 1..Len(names) :
        /\ slugify(names[i]) # ""
        /\ \A j \in 1..(i - 1) : slugify(names[j]) # slugify(names[i])}

\* the k-th smallest member of a set of positions
Kth(positions, k) ==
    CHOOSE i \in positions : Cardinality({j \in positions : j < i}) = k - 1

\* C6: the result holds exactly one ingredient per distinct non-empty slug of
\* the source names, in the order of first occurrence; names with an empty
\* slug are dropped; no two ingredients share a slug; without an Overlay
\* record the display name is the first occurrence's name.
C6_DedupeFirstSeen ==
    Returned =>
        LET first == FirstOccurrences(sourceNames)
            n == Len(result.ingredients)
        IN  /\ n = Cardinality(first)
            /\ \A k \in 1..n :
                /\ result.ingredients[k].slug = slugify(sourceNames[Kth(first, k)])
                /\ result.ingredients[k].slug # ""
                /\ lookup[k] # "record" =>
                     result.ingredients[k].name = sourceNames[Kth(first, k)]
            /\ \A k, m \in 1..n :
                 result.ingredients[k].slug = result.ingredients[m].slug => k = m

\* C6 witness: the names Bleach, BLEACH, Vinegar give Bleach, Vinegar.
C6_Witness ==
    /\ Returned
    /\ sourceNames = <<"Bleach", "BLEACH", "Vinegar">>
    /\ [k \in 1..Len(result.ingredients) |-> result.ingredients[k].name]
         = <<"Bleach", "Vinegar">>

\* C7 as stated: when the extraction repeats a slug and the Overlay has no
\* record for it, the result ingredient carries the first occurrence's name
\* and the first occurrence's AI risk and notes.
C7_DuplicatesKeepFirstRecord ==
    Returned =>
        \A i \in 1..Len(result.ingredients) :
            LET hits == AiIndices(result.ingredients[i].slug)
            IN  (lookup[i] # "record" /\ hits # {}) =>
                    LET firstAi == geminiData.ingredients[Kth(hits, 1)]
                    IN  /\ result.ingredients[i].name = firstAi.name
                        /\ result.ingredients[i].risk = firstAi.risk
                        /\ result.ingredients[i].notes = firstAi.notes

\* a precomputed extraction was supplied
Precomputed == input.geminiData # NoGeminiData

\* the Extractor call the scan has made is the one the policy selects
PolicyFollowed(skips) ==
    IF skips THEN aiCall = "none"
    ELSE IF text # "" THEN aiCall = "text"
    ELSE IF Len(directIngredients) > 0 /\ apiKeySet THEN aiCall = "names"
    ELSE aiCall = "none"

\* the Extractor call is recorded once, at the start, before any lookup
CallOnlyAtStart ==
    aiCall' # aiCall => pc = "start" /\ aiCall = "none" /\ lookup = <<>> /\ pc' # "start"

\* C13 (as amended): a supplied precomputed extraction, or skipAi, means no
\* Extractor call; otherwise non-empty text means exactly one call, on the
\* text, names or not; otherwise a non-empty name list means one call on the
\* names when the API key is set and none without it; the call is made at
\* most once and before any Overlay lookup.
C13_DecisionPolicy ==
    /\ [](/\ pc = "start" => aiCall = "none" /\ lookup = <<>> /\ slots = <<>>
          /\ pc # "start" => PolicyFollowed(Precomputed \/ input.skipAi))
    /\ [][CallOnlyAtStart]_vars

\* C13 witness: text and names were both supplied and the one call made was
\* the call on the text; the lookups have started.
C13_Witness ==
    /\ pc = "lookups" /\ lookup # <<>>
    /\ text # "" /\ Len(directIngredients) > 0
    /\ aiCall = "text" /\ ~aiThrew

\* C13 as stated: only a precomputed extraction suppresses the call.
C13_OnlyPrecomputedSkips == pc # "start" => PolicyFollowed(Precomputed)

NamesCallFailed == aiCall = "names" /\ aiThrew

\* the number of result ingredients with this risk
RiskCount(risk) ==
    Cardinality({i \in 1..Len(result.ingredients) : result.ingredients[i].risk = risk})

\* C14: with names only, when the Extractor call on the names fails the scan
\* does not throw; the extraction is empty; the result holds the deduped
\* supplied names in order, each with the values of its Overlay record when one
\* was found and otherwise the supplied name, risk "caution" and no notes; the
\* summary is the synthesized one (the counts, or the empty-result message
\* when nothing is left).
C14_NamesFailureDegrades ==
    NamesCallFailed =>
        /\ pc \in {"assemble", "lookups", "done"}
        /\ text = "" /\ ~Precomputed
        /\ geminiData = [ingredients |-> <<>>, summary |-> ""]
        /\ Returned =>
            LET first == FirstOccurrences(directIngredients)
                n == Len(result.ingredients)
            IN  /\ n = Cardinality(first)
                /\ \A k \in 1..n :
                    LET supplied == directIngredients[Kth(first, k)]
                        item == result.ingredients[k]
                    IN  /\ item.slug = slugify(supplied)
                        /\ IF lookup[k] = "record"
                           THEN /\ item.name = Or(DocOf(k).name, item.slug)
                                /\ item.risk = normalizeRisk(
                                        Str(Or(DocOf(k).risk_level, DocOf(k).risk)))
                                /\ item.notes = Or(trim(Str(DocOf(k).regulatory_notes)),
                                                   Undefined)
                           ELSE /\ item.name = supplied
                                /\ item.risk = "caution"
                                /\ item.notes = Undefined
                /\ result.summary =
                     IF n = 0 THEN "No recognizable ingredients were found in this scan."
                     ELSE "Detected " \o ToString(n) \o " ingredient(s): "
                          \o ToString(RiskCount("avoid")) \o " avoid, "
                          \o ToString(RiskCount("caution")) \o " caution, "
                          \o ToString(RiskCount("safe")) \o " safe."

\* C14 witness: the names call failed for Bleach, BLEACH, Vinegar; Bleach took
\* its Overlay record, Vinegar had none.
C14_Witness ==
    /\ Returned /\ NamesCallFailed
    /\ directIngredients = <<"Bleach", "BLEACH", "Vinegar">>
    /\ lookup = <<"record", "none">>
    /\ result.ingredients[2].risk = "caution"
    /\ result.summary = "Detected 2 ingredient(s): 1 avoid, 1 caution, 0 safe."

---------------------------------------------------------------------------
(* apps/api/lib/gemini.ts: safeJsonParse and the reading of its value      *)

\* The Markdown code fence: three backquote characters.  Model texts write
\* the backquote as a tilde, a character neither JSON nor the patterns of
\* safeJsonParse give any other meaning.
Fence == "~~~"

\* .replace(/^```json\s*/i, "")
stripFenceJson(s) ==
    IF Len(s) >= 7 /\ toLowerCase(SubSeq(s, 1, 7)) = Fence \o "json"
    THEN trimStart(SubSeq(s, 8, Len(s))) ELSE s

\* .replace(/^```\s*/i, "")
stripFence(s) ==
    IF Len(s) >= 3 /\ SubSeq(s, 1, 3) = Fence THEN trimStart(SubSeq(s, 4, Len(s))) ELSE s

\* .replace(/```$/i, ""): the fence must be the very end of the text
stripFenceEnd(s) ==
    IF Len(s) >= 3 /\ SubSeq(s, Len(s) - 2, Len(s)) = Fence
    THEN SubSeq(s, 1, Len(s) - 3) ELSE s

\* gemini.ts 35-39
cleaned(t) == trim(stripFenceEnd(stripFence(stripFenceJson(Str(t)))))

\* String.prototype.indexOf / lastIndexOf for one character: 0-based, -1
\* when the character does not occur
indexOf(s, c) ==
    LET at == {i \in 1..Len(s) : CharAt(s, i) = c}
    IN  IF at = {} THEN -1 ELSE (CHOOSE i \in at : \A j \in at : i <= j) - 1

lastIndexOf(s, c) ==
    LET at == {i \in 1..Len(s) : CharAt(s, i) = c}
    IN  IF at = {} THEN -1 ELSE (CHOOSE i \in at : \A j \in at : i >= j) - 1

\* String.prototype.slice(from, to) with 0-based bounds inside the string
slice(s, from, to) == SubSeq(s, from + 1, to)

InvalidJsonMessage == "Gemini returned invalid JSON."

\* the message of the SyntaxError JSON.parse throws; the engine words it
SyntaxErrorMessage == "Unexpected token in JSON"

Returns(value) == [kind |-> "returned", value |-> value, message |-> ""]
Throws(message) == [kind |-> "thrown", value |-> JsUndefined, message |-> message]

\* gemini.ts 34-51
safeJsonParse(t) ==
    LET c == cleaned(t)
        direct == JSONparse(c)
        firstBrace == indexOf(c, "{")
        lastBrace == lastIndexOf(c, "}")
    IN  IF direct.ok THEN Returns(direct.val)
        ELSE IF firstBrace >= 0 /\ lastBrace > firstBrace
        THEN LET sliced == JSONparse(slice(c, firstBrace, lastBrace + 1))
             IN  IF sliced.ok THEN Returns(sliced.val) ELSE Throws(SyntaxErrorMessage)
        ELSE Throws(InvalidJsonMessage)

\* gemini.ts 189-199, 203, 212: what normalizeGeminiOutput reads of value
asRecord(value) ==
    LET record == IF Falsy(value) THEN JsValue("object", "", <<>>, <<>>) ELSE value
        list == Get(record, "ingredients")
    IN  [ingredients |->
            [isArray |-> list.type = "array",
             items |-> IF list.type = "array"
                       THEN [i \in 1..Len(list.items) |->
                                [name |-> OrEmpty(Get(list.items[i], "name")),
                                 risk |-> OrEmpty(Get(list.items[i], "risk")),
                                 notes |-> OrEmpty(Get(list.items[i], "notes"))]]
                       ELSE <<>>],
         summary |-> OrEmpty(Get(record, "summary"))]

---------------------------------------------------------------------------
(* apps/api/lib/gemini.ts: callGeminiJson and fetchWithRetry               *)

RETRYABLE_STATUS == {429}
MAX_RETRIES == 2

\* Math.random() as a fraction <<numerator, denominator>> in [0, 1)
Randoms == {<<0, 1>>, <<1, 2>>, <<999, 1000>>}

\* a base delay that does not grow with the attempt
getRetryDelayMsFlat(a, retryAfter, random) ==
    LET parsed == IF Truthy(retryAfter) THEN Number(retryAfter) ELSE NaN
    IN  IF ~parsed.nan /\ parsed.value > 0 THEN parsed.value * 1000
        ELSE 600 + (random[1] * 250) \div random[2]

\* retryAfter is the text of the header, or Undefined when headers.get gives null
getRetryDelayMs(a, retryAfter, random) ==
    LET parsed == IF Truthy(retryAfter) THEN Number(retryAfter) ELSE NaN
    IN  IF ~parsed.nan /\ parsed.value > 0 THEN parsed.value * 1000
        ELSE LET base == 600
                 jitter == (random[1] * 250) \div random[2]
             IN  base * 2 ^ a + jitter

\* a loop test that allows one retry too many
returnsResponseLate(status, a) == status \notin RETRYABLE_STATUS \/ a > MAX_RETRIES

\* gemini.ts 71: the response is returned instead of retried
returnsResponse(status, a) == status \notin RETRYABLE_STATUS \/ a >= MAX_RETRIES

BusyMessage == "The analysis service is busy right now. Please try again in a moment."
UnavailableMessage ==
    "The analysis service is temporarily unavailable. Please try again in a moment."

\* a classification that looks at the status class first
toFriendlyGeminiErrorStatusFirst(status, details) ==
    IF status >= 500 THEN UnavailableMessage
    ELSE IF status = 429 \/ includes(toUpperCase(details), "RESOURCE_EXHAUSTED")
    THEN BusyMessage
    ELSE "Gemini API error " \o ToString(status) \o ": " \o details

toFriendlyGeminiError(status, details) ==
    LET upper == toUpperCase(details)
    IN  IF status = 429 \/ includes(upper, "RESOURCE_EXHAUSTED") THEN BusyMessage
        ELSE IF status >= 500 THEN UnavailableMessage
        ELSE "Gemini API error " \o ToString(status) \o ": " \o details

\* response.ok
ok(status) == status >= 200 /\ status <= 299

RetryAfterHeaders ==
    {Undefined, "", "2", "0", "-1", "Wed, 21 Oct 2015 07:28:00 GMT"}

ErrorBodies == {"", "quota: Resource_Exhausted", "API key not valid"}

\* The text of a 2xx response: the joined text parts of the first candidate
\* (gemini.ts 124-128), "" when the payload has none.
ModelTexts ==
    {"{\"ingredients\":[{\"name\":\" Bleach \",\"risk\":\"High\",\"notes\":\" Corrosive. \"},"
        \o "{\"name\":\"  \",\"risk\":\"safe\"},null,{\"name\":\"!!\"}],\"summary\":\" Label read. \"}",
     Fence \o "json\n{\"ingredients\": [{\"name\": \"Vinegar\", \"risk\": \"weird\"}]}\n" \o Fence,
     "Here you go: {\"summary\":\"ok\"} Thanks!",
     "{\"summary\": oops}",
     "Sure. {\"ingredients\": [{\"name\": \"Bleach\"} and more",
     "Sorry, I cannot help.",
     "",
     "} {",
     "null",
     "{\"ingredients\":\"none\",\"summary\":5}",
     Fence \o "\n[{\"name\":\"Bleach\"}]\n" \o Fence \o "\n"}

\* what the provider may answer to one request
Responses ==
    {[status |-> 429, retryAfter |-> h, body |-> b] :
        h \in RetryAfterHeaders, b \in {"", "quota: Resource_Exhausted"}}
    \cup {[status |-> st, retryAfter |-> Undefined, body |-> b] :
            st \in {400, 503}, b \in ErrorBodies}
    \cup {[status |-> 200, retryAfter |-> Undefined, body |-> t] : t \in ModelTexts}

Received(r) ==
    [status |-> r.status, retryAfter |-> r.retryAfter, body |-> r.body, at |-> clock]

LastResponse == requests[Len(requests)]

idleScan ==
    /\ pc = "idle"
    /\ input = [text |-> Undefined, ingredients |-> <<>>, geminiData |-> NoGeminiData,
                skipAi |-> FALSE]
    /\ fsConfigured = FALSE
    /\ store = EmptyStore
    /\ geminiData = EmptyGeminiData
    /\ aiCall = "none"
    /\ aiThrew = FALSE
    /\ uniqueNames = <<>>
    /\ slots = <<>>
    /\ lookup = <<>>
    /\ result = [ingredients |-> <<>>, overallRisk |-> Undefined, summary |-> Undefined]

idleGemini ==
    /\ gpc = "idle"
    /\ attempt = 0
    /\ requests = <<>>
    /\ delayMs = <<>>
    /\ clock = 0
    /\ outcome = [kind |-> "pending", message |-> "", status |-> 0]
    /\ output = JsUndefined
    /\ scanOutput = NoGeminiData

GeminiInit ==
    /\ idleOthers
    /\ idleScan
    /\ apiKeySet \in BOOLEAN
    /\ gpc = "start"
    /\ attempt = 0
    /\ requests = <<>>
    /\ delayMs = <<>>
    /\ clock = 0
    /\ outcome = [kind |-> "pending", message |-> "", status |-> 0]
    /\ output = JsUndefined
    /\ scanOutput = NoGeminiData
    /\ idleRules

\* gemini.ts 26-32, 95: getGeminiApiKey throws
MissingApiKey ==
    /\ gpc = "start" /\ ~apiKeySet
    /\ outcome' = [kind |-> "thrown", message |-> "Missing GEMINI_API_KEY.", status |-> 0]
    /\ gpc' = "done"
    /\ UNCHANGED <<scanVars, rulesVars, otherVars, output, scanOutput, attempt, requests,
                   delayMs, clock>>

\* gemini.ts 95-98, 68: fetchWithRetry is entered
EnterFetchWithRetry ==
    /\ gpc = "start" /\ apiKeySet
    /\ gpc' = "fetch"
    /\ UNCHANGED <<scanVars, rulesVars, otherVars, output, scanOutput, attempt, requests,
                   delayMs, clock, outcome>>

\* gemini.ts 70-73: a response arrives and is returned
FetchReturns ==
    /\ gpc = "fetch"
    /\ \E r \in Responses :
        /\ returnsResponse(r.status, attempt)
        /\ requests' = Append(requests, Received(r))
    /\ gpc' = "responded"
    /\ UNCHANGED <<scanVars, rulesVars, otherVars, output, scanOutput, attempt, delayMs, clock,
                   outcome>>

\* gemini.ts 70-75: a response arrives and the loop goes to sleep
FetchRetries ==
    /\ gpc = "fetch"
    /\ \E r \in Responses, random \in Randoms :
        /\ ~returnsResponse(r.status, attempt)
        /\ requests' = Append(requests, Received(r))
        /\ delayMs' = Append(delayMs, getRetryDelayMs(attempt, r.retryAfter, random))
    /\ gpc' = "sleep"
    /\ UNCHANGED <<scanVars, rulesVars, otherVars, output, scanOutput, attempt, clock, outcome>>

\* gemini.ts 70: fetch rejects (network error); nothing catches it
FetchThrows ==
    /\ gpc = "fetch"
    /\ outcome' = [kind |-> "thrown", message |-> "fetch failed", status |-> 0]
    /\ gpc' = "done"
    /\ UNCHANGED <<scanVars, rulesVars, otherVars, output, scanOutput, attempt, requests,
                   delayMs, clock>>

\* gemini.ts 75-76: the timer of sleep(delayMs) fires
SleepEnds ==
    /\ gpc = "sleep"
    /\ clock' = clock + delayMs[Len(delayMs)]
    /\ attempt' = attempt + 1
    /\ gpc' = "fetch"
    /\ UNCHANGED <<scanVars, rulesVars, otherVars, output, scanOutput, requests, delayMs, outcome>>

\* gemini.ts 118-121
ResponseNotOk ==
    /\ gpc = "responded" /\ ~ok(LastResponse.status)
    /\ outcome' = [kind |-> "thrown",
                   message |-> toFriendlyGeminiError(LastResponse.status, LastResponse.body),
                   status |-> LastResponse.status]
    /\ gpc' = "done"
    /\ UNCHANGED <<scanVars, rulesVars, otherVars, output, scanOutput, attempt, requests,
                   delayMs, clock>>

\* gemini.ts 123-130: the text of the body is handed to safeJsonParse
ResponseOk ==
    /\ gpc = "responded" /\ ok(LastResponse.status)
    /\ gpc' = "parse"
    /\ UNCHANGED <<scanVars, rulesVars, otherVars, output, scanOutput, attempt, requests,
                   delayMs, clock, outcome>>

\* gemini.ts 130, 34-51: safeJsonParse returns; callGeminiJson resolves
SafeJsonParseReturns ==
    /\ gpc = "parse"
    /\ safeJsonParse(LastResponse.body).kind = "returned"
    /\ output' = safeJsonParse(LastResponse.body).value
    /\ gpc' = "parsed"
    /\ UNCHANGED <<scanVars, rulesVars, otherVars, scanOutput, attempt, requests, delayMs,
                   clock, outcome>>

\* gemini.ts 130, 47-49: safeJsonParse throws; nothing in callGeminiJson or
\* analyzeWithGemini catches it
SafeJsonParseThrows ==
    /\ gpc = "parse"
    /\ safeJsonParse(LastResponse.body).kind = "thrown"
    /\ outcome' = [kind |-> "thrown",
                   message |-> safeJsonParse(LastResponse.body).message,
                   status |-> 0]
    /\ gpc' = "done"
    /\ UNCHANGED <<scanVars, rulesVars, otherVars, output, scanOutput, attempt, requests,
                   delayMs, clock>>

\* gemini.ts 235-236: analyzeWithGemini returns the hardened output
AnalyzeReturns ==
    /\ gpc = "parsed"
    /\ scanOutput' = normalizeGeminiOutput(asRecord(output))
    /\ outcome' = [kind |-> "returned", message |-> "", status |-> 0]
    /\ gpc' = "done"
    /\ UNCHANGED <<scanVars, rulesVars, otherVars, output, attempt, requests, delayMs, clock>>

GeminiNext ==
    \/ MissingApiKey
    \/ EnterFetchWithRetry
    \/ FetchReturns
    \/ FetchRetries
    \/ FetchThrows
    \/ SleepEnds
    \/ ResponseNotOk
    \/ ResponseOk
    \/ SafeJsonParseReturns
    \/ SafeJsonParseThrows
    \/ AnalyzeReturns

GeminiSpec == GeminiInit /\ [][GeminiNext]_vars

---------------------------------------------------------------------------
(* Properties of fetchWithRetry and callGeminiJson                         *)

\* C8: one call issues at most 3 requests; a request is re-issued only after a
\* 429 response and only once the computed delay has elapsed; a response
\* with another status is the last one (it is returned); the returned
\* response is a 429 only after 3 requests; the loop is bounded: each pass
\* makes one request and the pass counter never exceeds 2.
C8_BoundedRetry ==
    /\ Len(requests) <= 3
    /\ attempt <= 2
    /\ Len(requests) <= attempt + 1
    /\ \A k \in 1..(Len(requests) - 1) :
        /\ requests[k].status = 429
        /\ k <= Len(delayMs)
        /\ requests[k + 1].at >= requests[k].at + delayMs[k]
    /\ (gpc \in {"responded", "parse"} \/ (gpc = "done" /\ outcome.status # 0)) =>
        /\ requests # <<>>
        /\ LastResponse.status # 429 \/ Len(requests) = 3

\* C8 witness: three requests, the first two answered 429, the last returned.
C8_Witness ==
    /\ gpc = "responded"
    /\ Len(requests) = 3
    /\ requests[1].status = 429 /\ requests[2].status = 429
    /\ requests[3].status = 503

\* the delay before retry number a is the backoff 600 * 2^a plus a jitter
\* below 250
IsBackoff(delay, a) == delay >= 600 * 2 ^ a /\ delay <= 600 * 2 ^ a + 249

\* the text of the header is a number greater than zero
PositiveNumber(h) == Truthy(h) /\ ~Number(h).nan /\ Number(h).value > 0

\* C9 (as amended): before retry number a the wait is the retry-after value
\* (seconds, so value * 1000 ms) when the text of the header is a number greater
\* than zero; when the header is absent, empty, not a number, zero or
\* negative the wait is 600 * 2^a ms plus a jitter of 0..249 ms.
C9_RetryDelay ==
    /\ Len(delayMs) <= Len(requests)
    /\ \A k \in 1..Len(delayMs) :
        IF PositiveNumber(requests[k].retryAfter)
        THEN delayMs[k] = Number(requests[k].retryAfter).value * 1000
        ELSE IsBackoff(delayMs[k], k - 1)

\* C9 witness: a first wait taken from the header, a second wait at the top
\* of the backoff range after a 429 without the header.
C9_Witness ==
    /\ Len(delayMs) = 2
    /\ requests[1].retryAfter = "2" /\ delayMs[1] = 2000
    /\ requests[2].retryAfter = Undefined /\ delayMs[2] = 1449

\* C9 as stated: whenever the header is present the wait is its value; the
\* backoff is used only when the header is absent.
C9_HeaderWheneverPresent ==
    \A k \in 1..Len(delayMs) :
        IF requests[k].retryAfter # Undefined
        THEN /\ ~Number(requests[k].retryAfter).nan
             /\ delayMs[k] = Number(requests[k].retryAfter).value * 1000
        ELSE IsBackoff(delayMs[k], k - 1)

\* C10: a call whose returned response is not 2xx throws and never reaches
\* the parse of data; the message is the busy message for status 429 or a
\* body containing RESOURCE_EXHAUSTED (any case), otherwise the unavailable
\* message for status >= 500, otherwise the status and the detail; the busy
\* and unavailable messages hold none of the detail the provider sent.
C10_NonOkThrowsClassified ==
    /\ gpc = "parse" => ok(LastResponse.status)
    /\ (gpc = "done" /\ outcome.status # 0) =>
        LET status == LastResponse.status
            details == LastResponse.body
        IN  /\ ~ok(status)
            /\ outcome.status = status
            /\ outcome.kind = "thrown"
            /\ IF status = 429 \/ includes(toUpperCase(details), "RESOURCE_EXHAUSTED")
               THEN /\ outcome.message
                        = "The analysis service is busy right now. Please try again in a moment."
                    /\ details # "" => ~includes(outcome.message, details)
               ELSE IF status >= 500
               THEN /\ includes(outcome.message, "temporarily unavailable")
                    /\ details # "" => ~includes(outcome.message, details)
               ELSE /\ includes(outcome.message, ToString(status))
                    /\ includes(outcome.message, details)

\* C10 witness: a 503 whose body reports RESOURCE_EXHAUSTED ended the call
\* with the busy message, after two retried 429s.
C10_Witness ==
    /\ gpc = "done"
    /\ Len(requests) = 3
    /\ LastResponse.status = 503
    /\ LastResponse.body = "quota: Resource_Exhausted"
    /\ outcome.message = BusyMessage

---------------------------------------------------------------------------
(* Properties of safeJsonParse and of the hardened output                  *)

\* the call went past the status test and safeJsonParse has finished
ParseEnded == requests # <<>> /\ ok(LastResponse.status) /\ gpc \in {"parsed", "done"}

\* the slice of the cleaned text from its first "{" to its last "}", "" when
\* there is no such pair
BraceSlice(c) ==
    IF indexOf(c, "{") >= 0 /\ lastIndexOf(c, "}") > indexOf(c, "{")
    THEN slice(c, indexOf(c, "{"), lastIndexOf(c, "}") + 1) ELSE ""

\* C11 as stated: safeJsonParse returns the direct parse of the fence-stripped
\* text when that succeeds, otherwise the parse of the slice from the first
\* "{" to the last "}", and whenever both fail (braces present or not) it
\* throws the error "Gemini returned invalid JSON." and no other.
C11_ThreeTierParse ==
    ParseEnded =>
        LET c == cleaned(LastResponse.body)
        IN  IF JSONparse(c).ok
            THEN outcome.kind # "thrown" /\ output = JSONparse(c).val
            ELSE IF JSONparse(BraceSlice(c)).ok
            THEN outcome.kind # "thrown" /\ output = JSONparse(BraceSlice(c)).val
            ELSE outcome.kind = "thrown" /\ outcome.message = "Gemini returned invalid JSON."

\* the raw entries of the parsed output that have a usable name
UsableEntries(value) ==
    LET list == Get(IF Falsy(value) THEN JsNull ELSE value, "ingredients")
    IN  IF list.type # "array" THEN {}
        ELSE {i \in 1..Len(list.items) :
                ~Falsy(Get(list.items[i], "name"))
                /\ trim(ToStr(Get(list.items[i], "name"))) # ""}

\* C12: whatever the parsed model output, a returned GeminiScanOutput is a
\* validated structure: ingredients is a list, empty when the field is missing
\* or not an array; summary is a string, empty when missing; every ingredient
\* has a non-empty trimmed name, slug = slugify(name) and a risk in {safe,
\* caution, avoid}; exactly the entries with a usable name are kept.  A call
\* that fails throws and returns nothing.
C12_ValidatedOrThrows ==
    /\ gpc = "done" => outcome.kind \in {"returned", "thrown"}
    /\ outcome.kind # "returned" => scanOutput = NoGeminiData
    /\ outcome.kind = "returned" =>
        /\ ok(LastResponse.status)
        /\ scanOutput.summary # Undefined
        /\ Get(output, "summary") = JsUndefined => scanOutput.summary = ""
        /\ Get(output, "ingredients").type # "array" => scanOutput.ingredients = <<>>
        /\ Len(scanOutput.ingredients) = Cardinality(UsableEntries(output))
        /\ \A i \in 1..Len(scanOutput.ingredients) :
            LET item == scanOutput.ingredients[i]
            IN  /\ item.name # "" /\ item.name = trim(item.name)
                /\ item.slug = slugify(item.name)
                /\ item.risk \in {"safe", "caution", "avoid"}

\* C12 witness: a reply of four entries, one with a blank name and one null,
\* was hardened to the two named ingredients.
C12_Witness ==
    /\ gpc = "done" /\ outcome.kind = "returned"
    /\ Len(Get(output, "ingredients").items) = 4
    /\ Len(scanOutput.ingredients) = 2
    /\ scanOutput.ingredients[1].name = "Bleach"
    /\ scanOutput.ingredients[1].risk = "avoid"
    /\ scanOutput.summary = "Label read."

---------------------------------------------------------------------------
(* Scoring one product: scoreCleaningProduct, then getSwapSuggestions      *)

\* tokens of one ingredient list
MaxTokens == 2

ListTokens == {"LYE", "Muriatic Acid", "Bleach"}

NotArray == [isArray |-> FALSE, items |-> <<>>]

ProductNames == {Undefined, " CORROSIVE Drain Opener ", "Fresh Quat Aerosol"}

RawTexts == {Undefined, "Sodium Hypochlorite, Parfum; Ammonium Hydroxide, 2-Butoxyethanol"}

WarningLists ==
    {NotArray,
     [isArray |-> TRUE, items |-> <<"Keep away from children">>],
     [isArray |-> TRUE, items |-> <<"Danger", "Causes BURNS">>]}

Products ==
    {[name_guess |-> n, ingredients_raw |-> r, ingredients_list |-> l, warnings |-> w] :
        n \in ProductNames, r \in RawTexts,
        l \in {NotArray} \cup {[isArray |-> TRUE, items |-> t] :
                                  t \in ListsUpTo(ListTokens, MaxTokens)},
        w \in WarningLists}

JsTrue == JsValue("boolean", "true", <<>>, <<>>)
JsFalse == JsValue("boolean", "false", <<>>, <<>>)

PreferenceSets ==
    {[fragranceFree |-> f, bleachFree |-> b, ammoniaFree |-> a, avoidQuats |-> q,
      sensitiveMode |-> m] :
        f \in {JsUndefined, JsTrue, JsFalse}, b \in {JsUndefined, JsTrue},
        a \in {JsUndefined, JsTrue}, q \in {JsUndefined, JsTrue},
        m \in {JsUndefined, JsTrue}}

RulesInit ==
    /\ idleOthers
    /\ idleScan
    /\ apiKeySet = FALSE
    /\ idleGemini
    /\ rpc = "start"
    /\ product \in Products
    /\ preferences \in PreferenceSets
    /\ scored = NoScore
    /\ swaps = <<>>

\* the analyze route, line 63
ScoreCleaningProduct ==
    /\ rpc = "start"
    /\ scored' = scoreCleaningProduct(product, preferences)
    /\ rpc' = "scored"
    /\ UNCHANGED <<scanVars, geminiVars, otherVars, product, preferences, swaps>>

\* the analyze route, line 64
GetSwapSuggestions ==
    /\ rpc = "scored"
    /\ swaps' = getSwapSuggestions([isArray |-> TRUE, items |-> scored.flags])
    /\ rpc' = "done"
    /\ UNCHANGED <<scanVars, geminiVars, otherVars, product, preferences, scored>>

RulesNext ==
    \/ ScoreCleaningProduct
    \/ GetSwapSuggestions

RulesSpec == RulesInit /\ [][RulesNext]_vars

---------------------------------------------------------------------------
(* Properties of scoreCleaningProduct                                      *)

Scored == rpc \in {"scored", "done"}

FlagIds == [i \in 1..Len(scored.flags) |-> scored.flags[i].id]

Flagged(id) == \E i \in 1..Len(scored.flags) : scored.flags[i].id = id

LevelOf(id) == scored.flags[CHOOSE i \in 1..Len(scored.flags) : scored.flags[i].id = id].level

HasTip(tip) == \E i \in 1..Len(scored.handlingTips) : scored.handlingTips[i] = tip

RuleOrder ==
    <<"contains_fragrance", "contains_bleach", "contains_ammonia", "contains_quats",
      "corrosive_warning", "strong_alkali", "strong_acid", "solvent_based", "aerosol">>

BleachTip == "Never mix bleach with acids (vinegar) or ammonia. Ventilate well."
PpeTip == "Use gloves. Avoid splashes. Keep away from children and pets."

TipOrder ==
    <<BleachTip,
      "Never mix ammonia with bleach. Ventilate well.",
      PpeTip,
      "Avoid contact. Rinse thoroughly. Store securely.",
      "Ventilate well. Avoid mixing with bleach.",
      "Ventilate well and avoid prolonged exposure.">>

\* the position of x in the list order, 0 when it is not there
PositionIn(order, x) ==
    IF \E k \in 1..Len(order) : order[k] = x
    THEN CHOOSE k \in 1..Len(order) : order[k] = x ELSE 0

\* list holds members of order only, each at most once, in the order of order
IsSubsequence(list, order) ==
    /\ \A i \in 1..Len(list) : PositionIn(order, list[i]) > 0
    /\ \A i, j \in 1..Len(list) :
        i < j => PositionIn(order, list[i]) < PositionIn(order, list[j])

\* C15: for every product and preference set the flags are a subsequence of
\* the nine rule ids in rule order, none repeated, and the handling tips are
\* a subsequence of the tips in rule order (bleach, ammonia, corrosive PPE,
\* alkali, acid, solvent).
C15_FixedRuleOrder ==
    Scored =>
        /\ IsSubsequence(FlagIds, RuleOrder)
        /\ IsSubsequence(scored.handlingTips, TipOrder)

\* C15 witness: seven rules fired on one product and left six tips.
C15_Witness ==
    /\ Scored
    /\ Len(scored.flags) = 7
    /\ Len(scored.handlingTips) = 6
    /\ FlagIds[1] = "contains_fragrance" /\ FlagIds[7] = "solvent_based"

\* the lowercased text of all the fields of the product
Haystack == toLowerCase(allTextOf(product))

\* the preference is on: its value when given, its default when undefined
PrefOn(value, default) == IF value = JsUndefined THEN default ELSE value = JsTrue

\* C16: each preference-gated rule fires if and only if its own preference is
\* on (fragranceFree defaults to on, bleachFree, ammoniaFree and avoidQuats to
\* off) and one of its terms occurs in the product text, whatever the other
\* preferences; contains_bleach has level caution and brings the never-mix
\* tip; fragranceFree = false never yields contains_fragrance.
C16_PreferenceGates ==
    Scored =>
        /\ Flagged("contains_fragrance")
             <=> /\ PrefOn(preferences.fragranceFree, TRUE)
                 /\ \E t \in {"fragrance", "parfum", "perfume"} : includes(Haystack, t)
        /\ Flagged("contains_bleach")
             <=> /\ PrefOn(preferences.bleachFree, FALSE)
                 /\ \E t \in {"sodium hypochlorite", "hypochlorite", "chlorine bleach",
                               "bleach"} : includes(Haystack, t)
        /\ Flagged("contains_bleach") =>
             /\ LevelOf("contains_bleach") = "caution"
             /\ HasTip(BleachTip)
             /\ includes(BleachTip, "bleach") /\ includes(BleachTip, "ammonia")
        /\ Flagged("contains_ammonia")
             <=> /\ PrefOn(preferences.ammoniaFree, FALSE)
                 /\ \E t \in {"ammonia", "ammonium hydroxide"} : includes(Haystack, t)
        /\ Flagged("contains_quats")
             <=> /\ PrefOn(preferences.avoidQuats, FALSE)
                 /\ \E t \in {"benzalkonium chloride", "didecyldimethylammonium chloride",
                               "alkyl dimethyl benzyl ammonium chloride", "quat"} :
                        includes(Haystack, t)
        /\ preferences.fragranceFree = JsFalse => ~Flagged("contains_fragrance")

\* C16 witness: fragranceFree is false and bleachFree is true on a text with
\* parfum and hypochlorite: the bleach flag alone of the two fired.
C16_Witness ==
    /\ Scored
    /\ preferences.fragranceFree = JsFalse /\ preferences.bleachFree = JsTrue
    /\ preferences.ammoniaFree = JsUndefined
    /\ includes(Haystack, "parfum") /\ includes(Haystack, "ammonium hydroxide")
    /\ Flagged("contains_bleach")
    /\ ~Flagged("contains_fragrance") /\ ~Flagged("contains_ammonia")

\* C17 as stated: corrosive_warning (level caution, with the PPE tip) fires
\* whenever a corrosive term occurs in the product name, the raw ingredient
\* text, an ingredient-list token or a warning token.
C17_CorrosiveOnAnyField ==
    Scored =>
        ((\E t \in {"corrosive", "causes burns", "severe skin burns", "eye damage"} :
            includes(Haystack, t))
         => /\ Flagged("corrosive_warning")
            /\ LevelOf("corrosive_warning") = "caution"
            /\ HasTip(PpeTip))

\* C18: the overall bucket is consider_swap exactly when at least 3 flags
\* fired and one of them is corrosive_warning or has an id starting with
\* strong_; otherwise use_with_care exactly when a caution-level flag fired;
\* otherwise keep.
C18_OverallBucket ==
    Scored =>
        scored.overall =
            IF /\ Len(scored.flags) >= 3
               /\ \E i \in 1..Len(scored.flags) :
                    \/ scored.flags[i].id = "corrosive_warning"
                    \/ StartsWithAt(scored.flags[i].id, 1, "strong_")
            THEN "consider_swap"
            ELSE IF \E i \in 1..Len(scored.flags) : scored.flags[i].level = "caution"
            THEN "use_with_care"
            ELSE "keep"

\* C18 witness: four flags fired, none corrosive or strong, and the bucket
\* stayed use_with_care.
C18_Witness ==
    /\ Scored
    /\ Len(scored.flags) = 4
    /\ Flagged("contains_bleach")
    /\ ~Flagged("corrosive_warning") /\ ~Flagged("strong_alkali") /\ ~Flagged("strong_acid")
    /\ scored.overall = "use_with_care"

---------------------------------------------------------------------------
(* Properties of getSwapSuggestions                                        *)

Suggested == rpc = "done"

SwapTitles == [i \in 1..Len(swaps) |-> swaps[i].title]

HasBaseline == \E i \in 1..Len(swaps) : swaps[i].title = "Microfiber cloth + warm soapy water"

PriorityOrder ==
    <<"Oxygen based cleaner (non chlorine)",
      "Hydrogen peroxide bathroom cleaner",
      "Fragrance free all purpose cleaner",
      "Fragrance free dish soap or laundry detergent",
      "Pump spray alternative",
      "Soap based cleaner",
      "Milder pH cleaner for routine use",
      "Microfiber cloth + warm soapy water">>

\* the number of pattern entries the flags of the scored product match
PatternEntries ==
    (IF Flagged("contains_bleach") THEN 2 ELSE 0)
    + (IF Flagged("contains_fragrance") THEN 2 ELSE 0)
    + (IF Flagged("aerosol") THEN 1 ELSE 0)
    + (IF Flagged("contains_quats") THEN 1 ELSE 0)
    + (IF Flagged("strong_acid") \/ Flagged("strong_alkali") \/ Flagged("corrosive_warning")
       THEN 1 ELSE 0)

\* C19: getSwapSuggestions returns between 1 and 4 entries, in the priority
\* order bleach, fragrance, aerosol, quats, strong acid/alkali/corrosive,
\* baseline; the baseline entry is there whenever fewer than 4 pattern entries
\* matched.
C19_UpToFourInPriorityOrder ==
    Suggested =>
        /\ Len(swaps) >= 1 /\ Len(swaps) <= 4
        /\ Len(swaps) = IF PatternEntries >= 4 THEN 4 ELSE PatternEntries + 1
        /\ IsSubsequence(SwapTitles, PriorityOrder)
        /\ Flagged("contains_bleach") => SwapTitles[1] = PriorityOrder[1]
        /\ PatternEntries < 4 => HasBaseline

\* C19 witness: bleach and aerosol matched three pattern entries and the
\* baseline came fourth.
C19_Witness ==
    /\ Suggested
    /\ Flagged("contains_bleach") /\ Flagged("aerosol")
    /\ PatternEntries = 3
    /\ Len(swaps) = 4
    /\ swaps[3].title = "Pump spray alternative"
    /\ swaps[4].title = "Microfiber cloth + warm soapy water"

\* C20 as stated: every returned list, for every combination of flags
\* (contains_bleach together with contains_fragrance included), holds the
\* baseline microfiber suggestion.
C20_AlwaysBaseline == Suggested => HasBaseline

CautionFlags == {i \in 1..Len(scored.flags) : scored.flags[i].level = "caution"}

SolventTip == Flagged("solvent_based") /\ PrefOn(preferences.sensitiveMode, FALSE)

\* C30: the number of handling tips is the number of caution flags, plus one
\* exactly when solvent_based fired with sensitiveMode on; info flags add no
\* other tip, and a run without flags has no tips and overall keep.
C30_TipCount ==
    Scored =>
        /\ Len(scored.handlingTips)
              = Cardinality(CautionFlags) + (IF SolventTip THEN 1 ELSE 0)
        /\ (scored.flags = <<>> =>
               scored.handlingTips = <<>> /\ scored.overall = "keep")

\* two caution flags, an info flag without a tip, and the solvent tip
C30_Witness ==
    /\ Scored
    /\ SolventTip
    /\ Flagged("contains_fragrance")
    /\ Cardinality(CautionFlags) = 2
    /\ Len(scored.handlingTips) = 3

\* a run without flags
C30_WitnessNoFlags == Scored /\ scored.flags = <<>> /\ scored.overall = "keep"

---------------------------------------------------------------------------
(* The chat route: POST /api/chat (apps/api/app/api/chat/route.ts)         *)

\* a source record {title?, url?}; an absent field is Undefined
SourceRef(title, url) == [title |-> title, url |-> url]

\* route 107
keyOf(title, url) == toLowerCase(title) \o "|" \o toLowerCase(url)

\* route 104-115: the sources of one list, appended to those collected so far
RECURSIVE pushSources(_, _, _)
pushSources(list, seen, acc) ==
    IF list = <<>> THEN [seen |-> seen, sources |-> acc]
    ELSE LET title == trim(Str(Head(list).title))
             url == trim(Str(Head(list).url))
             key == keyOf(title, url)
         IN  IF title = "" /\ url = "" THEN pushSources(Tail(list), seen, acc)
             ELSE IF key \in seen THEN pushSources(Tail(list), seen, acc)
             ELSE pushSources(Tail(list), seen \cup {key},
                     Append(acc, SourceRef(IF title # "" THEN title ELSE Undefined,
                                           IF url # "" THEN url ELSE Undefined)))

\* route 98-119
RECURSIVE normalizeSourcesFrom(_, _, _)
normalizeSourcesFrom(ingredients, seen, acc) ==
    IF ingredients = <<>> THEN acc
    ELSE LET list == arrayOrEmpty(Head(ingredients).sources)
             pushed == pushSources(list, seen, acc)
         IN  normalizeSourcesFrom(Tail(ingredients), pushed.seen, pushed.sources)

normalizeSources(ingredients) == normalizeSourcesFrom(ingredients, {}, <<>>)

\* Map.get of a key the map does not hold
NoSource == SourceRef(Undefined, Undefined)

\* route 184-192 and Map.get: the first source whose title has this key
RECURSIVE sourceByTitle(_, _)
sourceByTitle(list, key) ==
    IF list = <<>> THEN NoSource
    ELSE LET title == trim(Str(Head(list).title))
         IN  IF title # "" /\ toLowerCase(title) = key THEN Head(list)
             ELSE sourceByTitle(Tail(list), key)

\* every title of the model is cited, a scan source or not
RECURSIVE matchedSourcesUnfiltered(_, _)
matchedSourcesUnfiltered(list, titles) ==
    IF titles = <<>> THEN <<>>
    ELSE LET found == sourceByTitle(list, toLowerCase(trim(Head(titles))))
         IN  <<IF found # NoSource THEN found ELSE SourceRef(Head(titles), Undefined)>>
             \o matchedSourcesUnfiltered(list, Tail(titles))

\* route 193-198
RECURSIVE matchedSources(_, _)
matchedSources(list, titles) ==
    IF titles = <<>> THEN <<>>
    ELSE LET found == sourceByTitle(list, toLowerCase(trim(Head(titles))))
         IN  (IF found # NoSource THEN <<found>> ELSE <<>>)
             \o matchedSources(list, Tail(titles))

\* gemini.ts 283-289: the hardening of the model output
chatOutputOf(record) ==
    [answer |-> trim(Str(record.answer)),
     sourceTitles |-> trimAndFilter(arrayOrEmpty(record.sourceTitles))]

NoProofAnswer == "I don't have enough proof to answer that."

\* sources of one ingredient, titles of one model answer
MaxSources == 2
MaxTitles == 2

SrcEpa == SourceRef("EPA List", "https://epa.test")
SrcEpaShouted == SourceRef(" EPA LIST ", "https://other.test")
SrcEcha == SourceRef(" ECHA", Undefined)
SrcUrlOnly == SourceRef(Undefined, "https://x.test")
SrcBlank == SourceRef(" ", Undefined)

SourceLists ==
    {NotArray} \cup {[isArray |-> TRUE, items |-> l] :
                        l \in ListsUpTo({SrcEpa, SrcEpaShouted, SrcEcha, SrcUrlOnly,
                                         SrcBlank}, MaxSources)}

\* the second ingredient repeats a title of the first, or has no usable list
ScanIngredients ==
    {<<[sources |-> a], [sources |-> b]>> :
        a \in SourceLists,
        b \in {NotArray, [isArray |-> TRUE, items |-> <<SrcEpaShouted, SrcEcha>>]}}

ChatBodies ==
    {[question |-> q, ingredients |-> [isArray |-> TRUE, items |-> i]] :
        q \in {" Is it safe? "}, i \in ScanIngredients}
    \cup {[question |-> q, ingredients |-> NotArray] : q \in {Undefined, " ", "Why?"}}

\* titles the model may answer with: scan titles in another case, a title of
\* no scan source, a url, blanks
ModelTitles == {"epa list ", "ECHA", "WHO Report", "https://x.test", " "}

ModelRecords ==
    {[answer |-> a, sourceTitles |-> t] :
        a \in {Undefined, " Yes. "},
        t \in {NotArray} \cup {[isArray |-> TRUE, items |-> l] :
                                  l \in ListsUpTo(ModelTitles, MaxTitles)}}

idleApi == idleScan /\ apiKeySet = FALSE /\ idleGemini /\ idleRules

ChatInit ==
    /\ idleApi
    /\ idleRisk
    /\ idleHandle
    /\ idleRoute
    /\ idleTrip
    /\ idleMobile
    /\ cpc = "start"
    /\ chatBody \in ChatBodies
    /\ chatSources = <<>>
    /\ chatAnswer = NoChatAnswer
    /\ chatReply = NoChatReply

\* route 163-166
MissingQuestion ==
    /\ cpc = "start"
    /\ trim(Str(chatBody.question)) = ""
    /\ chatReply' = [NoChatReply EXCEPT !.status = 400, !.error = "Missing question."]
    /\ cpc' = "done"
    /\ UNCHANGED <<scanVars, geminiVars, rulesVars, riskVars, handleVars, routeVars, tripVars,
                   mobileVars, chatBody, chatSources, chatAnswer>>

\* route 168-182: the sources are collected and the model is asked
AskModel ==
    /\ cpc = "start"
    /\ trim(Str(chatBody.question)) # ""
    /\ chatSources' = normalizeSources(arrayOrEmpty(chatBody.ingredients))
    /\ cpc' = "asking"
    /\ UNCHANGED <<scanVars, geminiVars, rulesVars, riskVars, handleVars, routeVars, tripVars,
                   mobileVars, chatBody, chatAnswer, chatReply>>

\* gemini.ts 278-289: callGeminiJson returns a record
AnswerReturns ==
    /\ cpc = "asking"
    /\ \E record \in ModelRecords : chatAnswer' = chatOutputOf(record)
    /\ cpc' = "answered"
    /\ UNCHANGED <<scanVars, geminiVars, rulesVars, riskVars, handleVars, routeVars, tripVars,
                   mobileVars, chatBody, chatSources, chatReply>>

\* gemini.ts 278 throws; route 204-212
AnswerThrows ==
    /\ cpc = "asking"
    /\ chatReply' = [NoChatReply EXCEPT !.status = 500,
                                        !.error = "Failed to answer question."]
    /\ cpc' = "done"
    /\ UNCHANGED <<scanVars, geminiVars, rulesVars, riskVars, handleVars, routeVars, tripVars,
                   mobileVars, chatBody, chatSources, chatAnswer>>

\* route 184-203
ChatResponds ==
    /\ cpc = "answered"
    /\ chatReply' = [NoChatReply EXCEPT
                        !.status = 200,
                        !.answer = Or(chatAnswer.answer, NoProofAnswer),
                        !.sources = matchedSources(chatSources, chatAnswer.sourceTitles)]
    /\ cpc' = "done"
    /\ UNCHANGED <<scanVars, geminiVars, rulesVars, riskVars, handleVars, routeVars, tripVars,
                   mobileVars, chatBody, chatSources, chatAnswer>>

ChatNext ==
    \/ MissingQuestion
    \/ AskModel
    \/ AnswerReturns
    \/ AnswerThrows
    \/ ChatResponds

ChatSpec == ChatInit /\ [][ChatNext]_vars

---------------------------------------------------------------------------
(* Properties of the chat route                                            *)

\* the source records of the submitted scan, as the route reads them
ScanSourceRecords ==
    LET ingredients == arrayOrEmpty(chatBody.ingredients)
    IN  UNION {{LET list == arrayOrEmpty(ingredients[i].sources)
                IN  SourceRef(IF trim(Str(list[j].title)) # ""
                                  THEN trim(Str(list[j].title)) ELSE Undefined,
                              IF trim(Str(list[j].url)) # ""
                                  THEN trim(Str(list[j].url)) ELSE Undefined) :
                 j \in 1..Len(arrayOrEmpty(ingredients[i].sources))} :
               i \in 1..Len(ingredients)}

\* the model's title matches a titled source of the scan, whatever the case
MatchesScan(title) ==
    \E s \in ScanSourceRecords :
        s.title # Undefined /\ toLowerCase(s.title) = toLowerCase(title)

Answered == cpc = "done" /\ chatReply.status = 200

\* C21: every returned source is a source record of the submitted scan whose
\* title is, case aside, a title the model returned; the model's titles that
\* match no scan source are dropped.
C21_NoFabricatedCitation ==
    Answered =>
        /\ \A i \in 1..Len(chatReply.sources) :
              /\ chatReply.sources[i] \in ScanSourceRecords
              /\ \E k \in 1..Len(chatAnswer.sourceTitles) :
                    toLowerCase(chatAnswer.sourceTitles[k])
                        = toLowerCase(chatReply.sources[i].title)
        /\ Len(chatReply.sources)
              = Cardinality({k \in 1..Len(chatAnswer.sourceTitles) :
                                MatchesScan(chatAnswer.sourceTitles[k])})

\* the model cites a scan title in another case and a title of no scan source
C21_Witness ==
    /\ Answered
    /\ chatAnswer.sourceTitles = <<"epa list", "WHO Report">>
    /\ chatReply.sources = <<SrcEpa>>

---------------------------------------------------------------------------
(* normalizeRisk (packages/shared/src/index.ts) applied to one value       *)

AvoidWords == {"avoid", "high", "severe", "very high"}
CautionWords == {"caution", "moderate", "medium", "unknown"}

\* words of neither list, among them near misses of listed words
OtherWords == {"", "safe", "low", "none", "veryhigh", "very  high", "highest", "un known"}

Capitalised(w) == IF w = "" THEN "" ELSE toUpperCase(CharAt(w, 1)) \o SubSeq(w, 2, Len(w))

Casings(w) == {w, toUpperCase(w), Capitalised(w)}

Paddings(w) == {w, " " \o w, w \o " \n", "\t " \o w \o "  "}

\* a written risk value together with the word it spells
RiskCases ==
    UNION {{[value |-> v, word |-> w] : v \in UNION {Paddings(c) : c \in Casings(w)}} :
              w \in AvoidWords \cup CautionWords \cup OtherWords}
    \cup {[value |-> Undefined, word |-> ""], [value |-> NullString, word |-> ""]}

RiskValues == {c.value : c \in RiskCases}

RiskInit ==
    /\ idleApi
    /\ idleChat
    /\ idleHandle
    /\ idleRoute
    /\ idleTrip
    /\ idleMobile
    /\ npc = "start"
    /\ riskValue \in RiskValues
    /\ riskLevel = Undefined

NormalizeRisk ==
    /\ npc = "start"
    /\ riskLevel' = normalizeRisk(riskValue)
    /\ npc' = "done"
    /\ UNCHANGED <<scanVars, geminiVars, rulesVars, chatVars, handleVars, routeVars,
                   tripVars, mobileVars, riskValue>>

RiskNext ==
    \/ NormalizeRisk

RiskSpec == RiskInit /\ [][RiskNext]_vars

LevelOfWord(w) ==
    IF w \in AvoidWords THEN "avoid" ELSE IF w \in CautionWords THEN "caution" ELSE "safe"

\* C25: normalizeRisk returns one of the three levels for every value: the
\* level of the word the value spells once trimmed and lower-cased, avoid for
\* avoid, high, severe and very high, caution for caution, moderate, medium and
\* unknown, safe for everything else, the empty string, null and undefined.
C25_NormalizeRiskTotal ==
    npc = "done" =>
        /\ riskLevel \in {"safe", "caution", "avoid"}
        /\ \A c \in RiskCases : c.value = riskValue => riskLevel = LevelOfWord(c.word)
        /\ (riskValue = "HIGH" => riskLevel = "avoid")
        /\ (riskValue = "Unknown" => riskLevel = "caution")
        /\ (riskValue \in {"", Undefined, NullString} => riskLevel = "safe")

\* a padded upper-case spelling of a listed word
C25_Witness == npc = "done" /\ riskValue = "\t VERY HIGH  " /\ riskLevel = "avoid"

---------------------------------------------------------------------------
(* getFirestore (apps/api/lib/scan.ts 142-183) called by concurrent scans  *)

Loaded(credentials) == [threw |-> FALSE, credentials |-> credentials]
LoadThrows == [threw |-> TRUE, credentials |-> JsUndefined]

\* scan.ts 142-166
loadServiceAccount(e, f) ==
    IF Truthy(e.json)
    THEN IF JSONparse(e.json).ok THEN Loaded(JSONparse(e.json).val) ELSE LoadThrows
    ELSE IF ~Truthy(e.path) THEN LoadThrows
    ELSE IF f = Undefined THEN LoadThrows
    ELSE IF JSONparse(f).ok THEN Loaded(JSONparse(f).val) ELSE LoadThrows

\* the outcome of one call: what it returned and the module state it leaves
Outcome(state, db, cache, appCount, made) ==
    [state |-> state, db |-> db, cachedDb |-> cache, apps |-> appCount, handles |-> made]

\* getFirestore without line 171
getFirestoreUncached(cache, appCount, made, e, f, accepted) ==
    LET loaded == loadServiceAccount(e, f)
    IN  IF loaded.threw THEN Outcome("threw", 0, cache, appCount, made)
        ELSE IF appCount = 0 /\ ~accepted THEN Outcome("threw", 0, cache, appCount, made)
        ELSE Outcome("returned", made + 1, made + 1,
                     IF appCount = 0 THEN 1 ELSE appCount, made + 1)

\* scan.ts 170-183; accepted: admin.credential.cert takes the credentials.
\* admin.firestore() is given a handle of its own on every call.
getFirestore(cache, appCount, made, e, f, accepted) ==
    IF cache # 0 THEN Outcome("returned", cache, cache, appCount, made)
    ELSE LET loaded == loadServiceAccount(e, f)
         IN  IF loaded.threw THEN Outcome("threw", 0, cache, appCount, made)
             ELSE IF appCount = 0 /\ ~accepted
                  THEN Outcome("threw", 0, cache, appCount, made)
             ELSE Outcome("returned", made + 1, made + 1,
                          IF appCount = 0 THEN 1 ELSE appCount, made + 1)

\* scans calling getFirestore
MaxCallers == 3

Callers == 1..MaxCallers

CredentialTexts == {"{bad", "{\"project_id\":\"p\"}"}

Envs == {[json |-> j, path |-> p] : j \in {Undefined} \cup CredentialTexts,
                                    p \in {Undefined, "sa.json"}}

Pending == [state |-> "pending", db |-> 0]

HandleInit ==
    /\ idleApi
    /\ idleChat
    /\ idleRisk
    /\ idleRoute
    /\ idleTrip
    /\ idleMobile
    /\ env \in Envs
    /\ file \in {Undefined} \cup CredentialTexts
    /\ cachedDb = 0
    /\ apps = 0
    /\ handles = 0
    /\ calls = [c \in Callers |-> Pending]

\* one caller runs getFirestore; the function does not await, so it runs whole
GetFirestore(c) ==
    /\ calls[c].state = "pending"
    /\ \E accepted \in BOOLEAN :
          LET out == getFirestore(cachedDb, apps, handles, env, file, accepted)
          IN  /\ calls' = [calls EXCEPT ![c] = [state |-> out.state, db |-> out.db]]
              /\ cachedDb' = out.cachedDb
              /\ apps' = out.apps
              /\ handles' = out.handles
    /\ UNCHANGED <<scanVars, geminiVars, rulesVars, chatVars, riskVars, routeVars,
                   tripVars, mobileVars, env, file>>

\* the credentials file is written, replaced or removed between two calls
FileChanges ==
    /\ \E f \in {Undefined} \cup CredentialTexts : f # file /\ file' = f
    /\ UNCHANGED <<scanVars, geminiVars, rulesVars, chatVars, riskVars, routeVars,
                   tripVars, mobileVars, env, cachedDb, apps,
                   handles, calls>>

HandleNext ==
    \/ \E c \in Callers : GetFirestore(c)
    \/ FileChanges

HandleSpec == HandleInit /\ [][HandleNext]_vars

---------------------------------------------------------------------------
(* Properties of getFirestore                                              *)

ReturnedTo(c) == calls[c].state = "returned"

\* C26: over every interleaving of getFirestore calls the Firebase app is
\* initialised at most once and all successful calls return one and the same
\* handle, the cached one; a call that throws leaves cachedDb as it was, so
\* that it is still unset after a failed first use.
C26_OneHandle ==
    /\ [](/\ apps <= 1
          /\ \A c \in Callers : ReturnedTo(c) => calls[c].db = cachedDb /\ cachedDb # 0
          /\ \A c, d \in Callers : ReturnedTo(c) /\ ReturnedTo(d) => calls[c].db = calls[d].db)
    /\ [][\A c \in Callers :
            calls[c].state = "pending" /\ calls'[c].state = "threw"
                => cachedDb' = cachedDb /\ apps' = apps]_vars

\* a call failed on the credentials, a later one initialised the handle and a
\* third one was given the same handle
C26_Witness ==
    \E c, d, e \in Callers :
        /\ calls[c].state = "threw"
        /\ ReturnedTo(d) /\ ReturnedTo(e) /\ d # e
        /\ calls[d].db = calls[e].db
        /\ apps = 1

---------------------------------------------------------------------------
(* The scan route: POST /api/scan (apps/api/app/api/scan/route.ts)         *)

\* route 20, without the trim
bodyTextUntrimmed(body) ==
    IF Get(body, "text").type = "string" THEN Get(body, "text").str ELSE ""

\* route 20
bodyText(body) ==
    IF Get(body, "text").type = "string" THEN trim(Get(body, "text").str) ELSE ""

\* route 21-23
bodyIngredients(body) ==
    LET list == Get(body, "ingredients")
    IN  IF list.type = "array"
        THEN trimAndFilter([i \in 1..Len(list.items) |-> OrEmpty(list.items[i])])
        ELSE <<>>

InvalidBodyError == "Body must include either text:string or ingredients:string[]."
InvalidJsonError == "Request body must be valid JSON."

\* request bodies: not JSON, JSON without usable text or names, and scans
\* of at most MaxItems names
BodyTexts ==
    {"{bad", "", "null", "{}", "[\"Bleach\"]",
     "{\"text\":\" \\n \"}",
     "{\"text\":5,\"ingredients\":[]}",
     "{\"ingredients\":[\" \",null,0,\"\"]}",
     "{\"ingredients\":\"Bleach\"}",
     "{\"text\":\" Bleach, Vinegar \"}",
     "{\"ingredients\":[\"Bleach\",\" BLEACH \",7]}",
     "{\"text\":\"Bleach\",\"ingredients\":[\"Vinegar\",\"!!\"]}",
     "{\"text\":[\"Bleach\"],\"ingredients\":[null,\" Vinegar \"]}"}

\* the server with no scan running
scanNotCalled ==
    /\ pc = "idle"
    /\ input = [text |-> Undefined, ingredients |-> <<>>, geminiData |-> NoGeminiData,
                skipAi |-> FALSE]
    /\ apiKeySet \in BOOLEAN
    /\ fsConfigured \in BOOLEAN
    /\ store \in IF fsConfigured THEN Stores ELSE {EmptyStore}
    /\ geminiData = EmptyGeminiData
    /\ aiCall = "none"
    /\ aiThrew = FALSE
    /\ uniqueNames = <<>>
    /\ slots = <<>>
    /\ lookup = <<>>
    /\ result = NoScanResult

RouteInit ==
    /\ scanNotCalled
    /\ idleGemini
    /\ idleRules
    /\ idleChat
    /\ idleRisk
    /\ idleHandle
    /\ idleTrip
    /\ idleMobile
    /\ hpc = "start"
    /\ requestBody \in BodyTexts
    /\ routeReply = NoRouteReply

\* route 15 throws a SyntaxError; route 41-48
RouteInvalidJson ==
    /\ hpc = "start"
    /\ ~JSONparse(requestBody).ok
    /\ routeReply' = [NoRouteReply EXCEPT !.status = 400, !.error = InvalidJsonError]
    /\ hpc' = "done"
    /\ UNCHANGED <<scanVars, geminiVars, rulesVars, chatVars, riskVars, handleVars,
                   tripVars, mobileVars, requestBody>>

\* route 20-32
RouteRejects ==
    /\ hpc = "start"
    /\ JSONparse(requestBody).ok
    /\ LET body == JSONparse(requestBody).val
       IN  bodyText(body) = "" /\ Len(bodyIngredients(body)) = 0
    /\ routeReply' = [NoRouteReply EXCEPT !.status = 400, !.error = InvalidBodyError]
    /\ hpc' = "done"
    /\ UNCHANGED <<scanVars, geminiVars, rulesVars, chatVars, riskVars, handleVars,
                   tripVars, mobileVars, requestBody>>

\* route 34-37 and scan.ts 35-45: createScanResult is entered
RouteCallsCreateScanResult ==
    /\ hpc = "start"
    /\ JSONparse(requestBody).ok
    /\ LET body == JSONparse(requestBody).val
       IN  /\ ~(bodyText(body) = "" /\ Len(bodyIngredients(body)) = 0)
           /\ input' = [text |-> Or(bodyText(body), Undefined),
                        ingredients |-> bodyIngredients(body),
                        geminiData |-> NoGeminiData, skipAi |-> FALSE]
    /\ geminiData' = EmptyGeminiData
    /\ pc' = "start"
    /\ hpc' = "scanning"
    /\ UNCHANGED <<apiKeySet, fsConfigured, store, aiCall, aiThrew, uniqueNames, slots,
                   lookup, result, geminiVars, rulesVars, chatVars, riskVars,
                   handleVars, tripVars, mobileVars, requestBody,
                   routeReply>>

\* route 39. createScanResult catches what its Extractor call and its Overlay
\* reads throw, so that route 50-56 is not reached from it.
RouteResponds ==
    /\ hpc = "scanning"
    /\ pc = "done"
    /\ routeReply' = [NoRouteReply EXCEPT !.status = 200, !.result = result]
    /\ hpc' = "done"
    /\ UNCHANGED <<scanVars, geminiVars, rulesVars, chatVars, riskVars, handleVars,
                   tripVars, mobileVars, requestBody>>

RouteNext ==
    \/ RouteInvalidJson
    \/ RouteRejects
    \/ RouteCallsCreateScanResult
    \/ ScanNext
    \/ RouteResponds

RouteSpec == RouteInit /\ [][RouteNext]_vars

---------------------------------------------------------------------------
(* Properties of the scan route                                            *)

ParsedBody == JSONparse(requestBody).val

\* the body holds a text that is not blank
HasText ==
    /\ Get(ParsedBody, "text").type = "string"
    /\ \E i \in 1..Len(Get(ParsedBody, "text").str) :
          ~IsSpace(CharAt(Get(ParsedBody, "text").str, i))

\* the body holds a list with an entry that is neither falsy nor blank
HasNames ==
    /\ Get(ParsedBody, "ingredients").type = "array"
    /\ \E i \in 1..Len(Get(ParsedBody, "ingredients").items) :
          LET item == Get(ParsedBody, "ingredients").items[i]
          IN  ~Falsy(item) /\ \E k \in 1..Len(ToStr(item)) : ~IsSpace(CharAt(ToStr(item), k))

ValidBody == JSONparse(requestBody).ok /\ (HasText \/ HasNames)

ScanNeverInvoked == pc = "idle" /\ aiCall = "none" /\ lookup = <<>> /\ result = NoScanResult

\* C22: a body that is not JSON, or holds neither a text nor a name, is
\* answered 400 without createScanResult, the Extractor or the Overlay being
\* invoked; every valid body is answered with the ScanResult of its scan,
\* also when the Extractor call or an Overlay read of that scan failed.
C22_RejectsInvalidOnly ==
    /\ (hpc \in {"start", "done"} /\ ~ValidBody => ScanNeverInvoked)
    /\ (hpc = "done" =>
          /\ (~JSONparse(requestBody).ok =>
                routeReply.status = 400 /\ routeReply.error = InvalidJsonError)
          /\ (JSONparse(requestBody).ok /\ ~ValidBody =>
                routeReply.status = 400 /\ routeReply.error = InvalidBodyError)
          /\ (ValidBody =>
                /\ routeReply.status = 200 /\ routeReply.error = ""
                /\ routeReply.result = result
                /\ pc = "done"
                /\ result.overallRisk \in {"safe", "caution", "avoid"}))
    /\ (~ValidBody => hpc # "scanning")

\* a valid body whose Extractor call and an Overlay read failed
C22_Witness ==
    /\ hpc = "done"
    /\ aiThrew
    /\ \E i \in 1..Len(lookup) : lookup[i] = "failed"
    /\ routeReply.status = 200
    /\ Len(routeReply.result.ingredients) >= 2

\* a body with a blank text and no names, rejected
C22_WitnessRejected ==
    /\ hpc = "done"
    /\ requestBody = "{\"text\":\" \\n \"}"
    /\ routeReply.status = 400

---------------------------------------------------------------------------
(* A ScanResult's names fed back into createScanResult, with an Extractor  *)
(* mocked to do the same thing on every call                               *)

\* names of one fed scan
MaxTripNames == 2

TripInputs ==
    {[text |-> Undefined, ingredients |-> nl, geminiData |-> NoGeminiData,
      skipAi |-> FALSE] : nl \in ListsUpTo(InputNames, MaxTripNames)}
    \cup
    {[text |-> t, ingredients |-> <<>>, geminiData |-> NoGeminiData, skipAi |-> FALSE] :
        t \in {"Bleach; Vinegar", " BLEACH , Bleach"}}

\* the mocked Extractor throws, or resolves with one parsed output
Mocks ==
    {NoMock} \cup {[throws |-> FALSE, raw |-> r] : r \in RawOutputs(MaxTripNames - 1)}

TripInit ==
    /\ idleGemini
    /\ idleRules
    /\ idleChat
    /\ idleRisk
    /\ idleHandle
    /\ idleRoute
    /\ idleMobile
    /\ round = 1
    /\ mock \in Mocks
    /\ firstResult = NoScanResult
    /\ pc = "start"
    /\ input \in TripInputs
    /\ apiKeySet \in BOOLEAN
    /\ fsConfigured \in BOOLEAN
    /\ store \in IF fsConfigured THEN Stores ELSE {EmptyStore}
    /\ geminiData = EmptyGeminiData
    /\ aiCall = "none"
    /\ aiThrew = FALSE
    /\ uniqueNames = <<>>
    /\ slots = <<>>
    /\ lookup = <<>>
    /\ result = NoScanResult

\* the Extractor calls of createScanResult, answered by the mock; without an
\* API key the call throws before the Extractor is reached
MockedTextOk ==
    /\ ~mock.throws
    /\ GeminiTextOk
    /\ geminiData' = normalizeGeminiOutput(mock.raw)

MockedTextFail == (mock.throws \/ ~apiKeySet) /\ GeminiTextFail

MockedNamesOk ==
    /\ ~mock.throws
    /\ GeminiNamesOk
    /\ geminiData' = normalizeGeminiOutput(mock.raw)

MockedNamesFail == mock.throws /\ GeminiNamesFail

ResultNames == [i \in 1..Len(result.ingredients) |-> result.ingredients[i].name]

\* createScanResult({ingredients: names of the result}) is entered
FeedBack ==
    /\ round = 1
    /\ pc = "done"
    /\ firstResult' = result
    /\ round' = 2
    /\ input' = [text |-> Undefined, ingredients |-> ResultNames,
                 geminiData |-> NoGeminiData, skipAi |-> FALSE]
    /\ geminiData' = EmptyGeminiData
    /\ aiCall' = "none"
    /\ aiThrew' = FALSE
    /\ uniqueNames' = <<>>
    /\ slots' = <<>>
    /\ lookup' = <<>>
    /\ result' = NoScanResult
    /\ pc' = "start"
    /\ UNCHANGED <<apiKeySet, fsConfigured, store, mock, geminiVars, rulesVars,
                   chatVars, riskVars, handleVars, routeVars, mobileVars>>

TripNext ==
    \/ MockedTextOk
    \/ MockedTextFail
    \/ MockedNamesOk
    \/ MockedNamesFail
    \/ NoGeminiCall
    \/ Assemble
    \/ \E i \in 1..Len(lookup) : LookupReturns(i)
    \/ \E i \in 1..Len(lookup) : LookupFails(i)
    \/ Return
    \/ FeedBack

RoundTripSpec == TripInit /\ [][TripNext]_vars

---------------------------------------------------------------------------
(* Properties of the round trip                                            *)

SlugsOf(r) == [i \in 1..Len(r.ingredients) |-> r.ingredients[i].slug]

SecondReturned == round = 2 /\ pc = "done"

\* round 1 took the name of some ingredient from its Overlay record
OverlayNamed(r) ==
    \E i \in 1..Len(r.ingredients) :
        r.ingredients[i].slug # slugify(r.ingredients[i].name)

\* C23 as stated: the scan of a result's names has the slugs of that result,
\* in the same order, whether or not the Overlay supplied names of the result.
C23_RoundTripSlugs == SecondReturned => SlugsOf(result) = SlugsOf(firstResult)

\* the round trip of a result whose names all slugify to their slugs
C23_RoundTripOwnNames ==
    SecondReturned /\ ~OverlayNamed(firstResult)
        => SlugsOf(result) = SlugsOf(firstResult)

---------------------------------------------------------------------------
(* The mobile app: apps/mobile/App.tsx                                     *)

MIN_OCR_LENGTH == 120

\* MIN_OCR_CONFIDENCE 0.45, in percent
MIN_OCR_CONFIDENCE == 45

MAX_HISTORY == 20

\* OCR_KEYWORD_REGEX
OcrKeywords == {"ingredients", "contains", "composition"}

\* \w
IsWordChar(c) == c \in UpperChars \cup LowerChars \cup DigitChars \cup {"_"}

\* OCR_KEYWORD_REGEX.test(s): a keyword in any case between two word boundaries
hasKeyword(s) ==
    \E kw \in OcrKeywords :
        \E i \in 1..(Len(s) - Len(kw) + 1) :
            /\ toLowerCase(SubSeq(s, i, i + Len(kw) - 1)) = kw
            /\ (i = 1 \/ ~IsWordChar(CharAt(s, i - 1)))
            /\ (i + Len(kw) > Len(s) \/ ~IsWordChar(CharAt(s, i + Len(kw))))

\* s.split("\n") from position start on
RECURSIVE linesFrom(_, _)
linesFrom(s, start) ==
    IF start > Len(s) + 1 THEN <<>>
    ELSE LET ends == {i \in start..Len(s) : CharAt(s, i) = "\n"}
             stop == IF ends = {} THEN Len(s) + 1
                     ELSE CHOOSE i \in ends : \A j \in ends : i <= j
         IN  <<SubSeq(s, start, stop - 1)>> \o linesFrom(s, stop + 1)

NonBlank(line) == trim(line) # ""

CountOf(s, c) == Cardinality({i \in 1..Len(s) : CharAt(s, i) = c})

Evaluation(isOk, message) == [ok |-> isOk, message |-> message]

\* App.tsx 54-94; the list density (commas + semicolons) / length * 100 < 1.2
\* is compared in thousandths
evaluateOcrText(t, confidence) ==
    LET trimmed == trim(t)
    IN  IF trimmed = ""
        THEN Evaluation(FALSE, "We couldn't read the ingredient list. "
                            \o "Try better light, move closer, and fill the frame.")
        ELSE IF Len(trimmed) < MIN_OCR_LENGTH
        THEN Evaluation(FALSE, "We couldn't read enough text. "
                            \o "Try better light, move closer, and fill the frame.")
        ELSE IF confidence # NoConfidence /\ confidence < MIN_OCR_CONFIDENCE
        THEN Evaluation(FALSE, "The photo looks blurry or too dark. "
                            \o "Please retake in better light.")
        ELSE LET commaCount == CountOf(trimmed, ",")
                 semicolonCount == CountOf(trimmed, ";")
                 lineCount == Len(SelectSeq(linesFrom(trimmed, 1), NonBlank))
                 sparse == (commaCount + semicolonCount) * 1000 < 12 * Len(trimmed)
             IN  IF ~hasKeyword(trimmed) /\ sparse /\ lineCount < 6
                 THEN Evaluation(FALSE, "We couldn't find an ingredients list. "
                        \o "Make sure the ingredients panel fills the frame.")
                 ELSE Evaluation(TRUE, "Review the text below to confirm we captured "
                        \o "the full ingredients list.")

\* App.tsx 140-146
RECURSIVE firstNameLine(_)
firstNameLine(lines) ==
    IF lines = <<>> THEN ""
    ELSE IF hasKeyword(Head(lines)) THEN firstNameLine(Tail(lines))
    ELSE IF Len(Head(lines)) < 3 \/ Len(Head(lines)) > 60 THEN firstNameLine(Tail(lines))
    ELSE Head(lines)

\* App.tsx 134-147
guessProductName(t) ==
    LET lines == linesFrom(t, 1)
        trimmedLines == [i \in 1..Len(lines) |-> trim(lines[i])]
    IN  firstNameLine(SelectSeq(trimmedLines, NonBlank))

\* App.tsx 200-207
isOcrRunning == ocrStatus = "running"
isBusy == isAnalyzing \/ isOcrRunning
canScan == Len(trim(mText)) > 0 /\ ~isAnalyzing
canAnalyze == backUri # 0 /\ ocrAccepted /\ ~isBusy
ocrEvaluation == evaluateOcrText(ocrText, ocrConfidence)

\* photos taken and scan requests sent in one session
MaxPhotos == 2
MaxRequests == 2

LabelText ==
    "Ingredients: Water, Sodium Hypochlorite, Sodium Hydroxide, Sodium Chloride, "
        \o "Fragrance, Cocamine Oxide, Sodium Carbonate, Dye."

DirectionsText ==
    "Directions for use shake well before each use and spray on the surface "
        \o "from a short distance then wipe with a clean dry cloth"

\* what runOcr may resolve with for a back photo: a readable list, the same
\* list read with low confidence, a panel without a list, nearly nothing
BackReadings ==
    {[text |-> LabelText, confidence |-> NoConfidence],
     [text |-> LabelText, confidence |-> 30],
     [text |-> DirectionsText, confidence |-> 90],
     [text |-> "Water", confidence |-> 90]}

\* what runOcr may resolve with for a front photo
FrontTexts == {"CONTAINS BLEACH\n CleanCo Spray \n500 ml", "ab"}

TypedNames == {"", "My Spray"}

TypedTexts == {"", " Bleach, Vinegar "}

MobileInit ==
    /\ idleApi
    /\ idleChat
    /\ idleRisk
    /\ idleHandle
    /\ idleRoute
    /\ idleTrip
    /\ idleMobile

serverVars ==
    <<scanVars, geminiVars, rulesVars, chatVars, riskVars, handleVars, routeVars, tripVars>>

\* App.tsx 426-438, the state it sets that the model holds
clearCaptureState ==
    /\ frontUri' = 0
    /\ backUri' = 0
    /\ productName' = ""
    /\ ocrText' = ""
    /\ ocrConfidence' = NoConfidence
    /\ ocrStatus' = "idle"
    /\ ocrAccepted' = FALSE
    /\ frontRead' = ""

\* App.tsx 504, 512
SetMode(m) ==
    /\ m # mode
    /\ mode' = m
    /\ UNCHANGED <<serverVars, mText, isAnalyzing, mResult, history, frontUri, backUri,
                   productName, ocrText, ocrConfidence, ocrStatus, ocrAccepted,
                   captures, backOcrs, frontOcrs, scans, photos, sent, acceptedText,
                   frontRead>>

\* App.tsx 709
TypeText(t) ==
    /\ mode = "text"
    /\ t # mText
    /\ mText' = t
    /\ UNCHANGED <<serverVars, mode, isAnalyzing, mResult, history, frontUri, backUri,
                   productName, ocrText, ocrConfidence, ocrStatus, ocrAccepted,
                   captures, backOcrs, frontOcrs, scans, photos, sent, acceptedText,
                   frontRead>>

\* App.tsx 635
TypeProductName(n) ==
    /\ mode = "camera"
    /\ n # productName
    /\ productName' = n
    /\ UNCHANGED <<serverVars, mode, mText, isAnalyzing, mResult, history, frontUri,
                   backUri, ocrText, ocrConfidence, ocrStatus, ocrAccepted, captures,
                   backOcrs, frontOcrs, scans, photos, sent, acceptedText, frontRead>>

\* App.tsx 318-325 and 592-593: takePhoto runs to its first await; the call
\* keeps the productName of the render it was made in
PressCapture(kind) ==
    /\ mode = "camera"
    /\ ~isBusy
    /\ photos < MaxPhotos
    /\ photos' = photos + 1
    /\ captures' = captures \cup {[kind |-> kind, uri |-> photos + 1,
                                   name |-> productName, stage |-> "camera"]}
    /\ UNCHANGED <<serverVars, mode, mText, isAnalyzing, mResult, history, frontUri,
                   backUri, productName, ocrText, ocrConfidence, ocrStatus,
                   ocrAccepted, backOcrs, frontOcrs, scans, sent, acceptedText,
                   frontRead>>

\* App.tsx 327-333 and 339-340: the photo arrives, the thumbnail is awaited
CameraReturns(c) ==
    /\ c \in captures /\ c.stage = "camera"
    /\ captures' = (captures \ {c}) \cup {[c EXCEPT !.stage = "thumbnail"]}
    /\ IF c.kind = "front"
       THEN frontUri' = c.uri /\ frontRead' = "" /\ UNCHANGED backUri
       ELSE backUri' = c.uri /\ UNCHANGED <<frontUri, frontRead>>
    /\ UNCHANGED <<serverVars, mode, mText, isAnalyzing, mResult, history,
                   productName, ocrText, ocrConfidence, ocrStatus, ocrAccepted,
                   backOcrs, frontOcrs, scans, photos, sent, acceptedText>>

\* App.tsx 327 and 345-347: no photo, or takePictureAsync rejects
CameraFails(c) ==
    /\ c \in captures /\ c.stage = "camera"
    /\ captures' = captures \ {c}
    /\ UNCHANGED <<serverVars, mode, mText, isAnalyzing, mResult, history, frontUri,
                   backUri, productName, ocrText, ocrConfidence, ocrStatus,
                   ocrAccepted, backOcrs, frontOcrs, scans, photos, sent, acceptedText,
                   frontRead>>

\* App.tsx 333-337: the front thumbnail arrives; runFrontOcr is started when
\* the productName of the call is blank, and runs to its await (286)
FrontThumbnailReturns(c) ==
    /\ c \in captures /\ c.stage = "thumbnail" /\ c.kind = "front"
    /\ captures' = captures \ {c}
    /\ frontOcrs' = IF trim(c.name) = ""
                    THEN frontOcrs \cup {[uri |-> c.uri, name |-> c.name]}
                    ELSE frontOcrs
    /\ UNCHANGED <<serverVars, mode, mText, isAnalyzing, mResult, history, frontUri,
                   backUri, productName, ocrText, ocrConfidence, ocrStatus,
                   ocrAccepted, backOcrs, scans, photos, sent, acceptedText, frontRead>>

\* App.tsx 340-343 and 296-306: the back thumbnail arrives, the result is
\* cleared and runBackOcr runs to its await
BackThumbnailReturns(c) ==
    /\ c \in captures /\ c.stage = "thumbnail" /\ c.kind = "back"
    /\ captures' = captures \ {c}
    /\ mResult' = 0
    /\ ocrStatus' = "running"
    /\ ocrText' = ""
    /\ ocrConfidence' = NoConfidence
    /\ ocrAccepted' = FALSE
    /\ backOcrs' = backOcrs \cup {c.uri}
    /\ UNCHANGED <<serverVars, mode, mText, isAnalyzing, history, frontUri, backUri,
                   productName, frontOcrs, scans, photos, sent, acceptedText, frontRead>>

\* App.tsx 306-309 and 314
BackOcrResolves(u) ==
    /\ u \in backOcrs
    /\ backOcrs' = backOcrs \ {u}
    /\ \E reading \in BackReadings :
          ocrText' = reading.text /\ ocrConfidence' = reading.confidence
    /\ ocrStatus' = "ready"
    /\ UNCHANGED <<serverVars, mode, mText, isAnalyzing, mResult, history, frontUri,
                   backUri, productName, ocrAccepted, captures, frontOcrs, scans,
                   photos, sent, acceptedText, frontRead>>

\* App.tsx 310-314
BackOcrFails(u) ==
    /\ u \in backOcrs
    /\ backOcrs' = backOcrs \ {u}
    /\ ocrStatus' = "failed"
    /\ UNCHANGED <<serverVars, mode, mText, isAnalyzing, mResult, history, frontUri,
                   backUri, productName, ocrText, ocrConfidence, ocrAccepted, captures,
                   frontOcrs, scans, photos, sent, acceptedText, frontRead>>

\* App.tsx 287-290: productName is the one of the render takePhoto ran in
setGuessedName(guess, closureName, current) ==
    IF guess # "" /\ trim(closureName) = "" THEN guess ELSE current

\* App.tsx 286-290
FrontOcrResolves(f) ==
    /\ f \in frontOcrs
    /\ frontOcrs' = frontOcrs \ {f}
    /\ \E t \in FrontTexts :
          /\ productName' = setGuessedName(guessProductName(t), f.name, productName)
          /\ frontRead' = IF frontUri = f.uri THEN t ELSE frontRead
    /\ UNCHANGED <<serverVars, mode, mText, isAnalyzing, mResult, history, frontUri,
                   backUri, ocrText, ocrConfidence, ocrStatus, ocrAccepted, captures,
                   backOcrs, scans, photos, sent, acceptedText>>

\* App.tsx 291-293
FrontOcrFails(f) ==
    /\ f \in frontOcrs
    /\ frontOcrs' = frontOcrs \ {f}
    /\ UNCHANGED <<serverVars, mode, mText, isAnalyzing, mResult, history, frontUri,
                   backUri, productName, ocrText, ocrConfidence, ocrStatus,
                   ocrAccepted, captures, backOcrs, scans, photos, sent, acceptedText,
                   frontRead>>

\* App.tsx 642 and 664-668: Looks Good is shown and pressed
AcceptOcr ==
    /\ mode = "camera"
    /\ backUri # 0 /\ ocrStatus = "ready" /\ ocrEvaluation.ok
    /\ ~ocrAccepted
    /\ ocrAccepted' = TRUE
    /\ acceptedText' = ocrText
    /\ UNCHANGED <<serverVars, mode, mText, isAnalyzing, mResult, history, frontUri,
                   backUri, productName, ocrText, ocrConfidence, ocrStatus, captures,
                   backOcrs, frontOcrs, scans, photos, sent, frontRead>>

\* App.tsx 468-478, shown under 642
RetakeBack ==
    /\ mode = "camera"
    /\ backUri # 0 /\ ocrStatus # "idle"
    /\ backUri' = 0
    /\ ocrText' = ""
    /\ ocrConfidence' = NoConfidence
    /\ ocrStatus' = "idle"
    /\ ocrAccepted' = FALSE
    /\ mResult' = 0
    /\ UNCHANGED <<serverVars, mode, mText, isAnalyzing, history, frontUri,
                   productName, captures, backOcrs, frontOcrs, scans, photos, sent,
                   acceptedText, frontRead>>

\* App.tsx 480-484
ResetPhotos ==
    /\ mode = "camera"
    /\ clearCaptureState
    /\ mResult' = 0
    /\ UNCHANGED <<serverVars, mode, mText, isAnalyzing, history, captures, backOcrs,
                   frontOcrs, scans, photos, sent, acceptedText>>

\* App.tsx 440-451; each request in flight is marked as sent before a reset
ResetScan ==
    /\ mode' = "camera"
    /\ mText' = ""
    /\ mResult' = 0
    /\ clearCaptureState
    /\ scans' = [i \in 1..Len(scans) |-> [scans[i] EXCEPT !.reset = TRUE]]
    /\ UNCHANGED <<serverVars, isAnalyzing, history, captures, backOcrs, frontOcrs,
                   photos, sent, acceptedText>>

\* App.tsx 413-424
LoadHistory(i) ==
    /\ i \in 1..Len(history)
    /\ mResult' = history[i].result
    /\ clearCaptureState
    /\ mode' = history[i].mode
    /\ mText' = IF history[i].mode = "text" THEN history[i].rawText ELSE ""
    /\ UNCHANGED <<serverVars, isAnalyzing, history, captures, backOcrs, frontOcrs,
                   scans, photos, sent, acceptedText>>

\* a scan request: the arguments of buildAnalysisText (121-132) in camera
\* mode, the trimmed text in text mode
Request(id, from, name, labelText) ==
    [id |-> id, mode |-> from, productName |-> name, text |-> labelText, reset |-> FALSE]

\* App.tsx 350-368 and 685-686: onAnalyzeIngredients runs to its await
PressAnalyze ==
    /\ mode = "camera"
    /\ canAnalyze
    /\ sent < MaxRequests
    /\ isAnalyzing' = TRUE
    /\ mResult' = 0
    /\ sent' = sent + 1
    /\ scans' = Append(scans, Request(sent + 1, "camera", productName, ocrText))
    /\ UNCHANGED <<serverVars, mode, mText, history, frontUri, backUri, productName,
                   ocrText, ocrConfidence, ocrStatus, ocrAccepted, captures, backOcrs,
                   frontOcrs, photos, acceptedText, frontRead>>

\* App.tsx 246-256 and 718-719: onScan runs to its await
PressScan ==
    /\ mode = "text"
    /\ canScan
    /\ sent < MaxRequests
    /\ isAnalyzing' = TRUE
    /\ mResult' = 0
    /\ sent' = sent + 1
    /\ scans' = Append(scans, Request(sent + 1, "text", "", trim(mText)))
    /\ UNCHANGED <<serverVars, mode, mText, history, frontUri, backUri, productName,
                   ocrText, ocrConfidence, ocrStatus, ocrAccepted, captures, backOcrs,
                   frontOcrs, photos, acceptedText, frontRead>>

Without(list, i) == SubSeq(list, 1, i - 1) \o SubSeq(list, i + 1, Len(list))

HistoryEntry(request) ==
    [mode |-> request.mode, result |-> request.id, rawText |-> request.text]

\* App.tsx 257-264, 369-379 and 409-411: setResult(payload), addToHistory
settle(request, current, entries) ==
    [result |-> request.id,
     history |-> LET all == <<HistoryEntry(request)>> \o entries
                 IN  SubSeq(all, 1, IF Len(all) < MAX_HISTORY THEN Len(all)
                                    ELSE MAX_HISTORY)]

\* App.tsx 256-264 / 368-379 and the finally block: the response arrives
ScanResolves(i) ==
    /\ i \in 1..Len(scans)
    /\ LET settled == settle(scans[i], mResult, history)
       IN  mResult' = settled.result /\ history' = settled.history
    /\ isAnalyzing' = FALSE
    /\ scans' = Without(scans, i)
    /\ UNCHANGED <<serverVars, mode, mText, frontUri, backUri, productName, ocrText,
                   ocrConfidence, ocrStatus, ocrAccepted, captures, backOcrs,
                   frontOcrs, photos, sent, acceptedText, frontRead>>

\* App.tsx 265-270 / 380-385: the request fails
ScanRejects(i) ==
    /\ i \in 1..Len(scans)
    /\ isAnalyzing' = FALSE
    /\ scans' = Without(scans, i)
    /\ UNCHANGED <<serverVars, mode, mText, mResult, history, frontUri, backUri,
                   productName, ocrText, ocrConfidence, ocrStatus, ocrAccepted,
                   captures, backOcrs, frontOcrs, photos, sent, acceptedText,
                   frontRead>>

MobileNext ==
    \/ \E m \in {"camera", "text"} : SetMode(m)
    \/ \E t \in TypedTexts : TypeText(t)
    \/ \E n \in TypedNames : TypeProductName(n)
    \/ \E kind \in {"front", "back"} : PressCapture(kind)
    \/ \E c \in captures : CameraReturns(c)
    \/ \E c \in captures : CameraFails(c)
    \/ \E c \in captures : FrontThumbnailReturns(c)
    \/ \E c \in captures : BackThumbnailReturns(c)
    \/ \E u \in backOcrs : BackOcrResolves(u)
    \/ \E u \in backOcrs : BackOcrFails(u)
    \/ \E f \in frontOcrs : FrontOcrResolves(f)
    \/ \E f \in frontOcrs : FrontOcrFails(f)
    \/ AcceptOcr
    \/ RetakeBack
    \/ ResetPhotos
    \/ ResetScan
    \/ \E i \in 1..Len(history) : LoadHistory(i)
    \/ PressAnalyze
    \/ PressScan
    \/ \E i \in 1..Len(scans) : ScanResolves(i)
    \/ \E i \in 1..Len(scans) : ScanRejects(i)

MobileSpec == MobileInit /\ [][MobileNext]_vars

---------------------------------------------------------------------------
(* Properties of the mobile app                                            *)

NothingInFlight == captures = {} /\ backOcrs = {} /\ frontOcrs = {} /\ scans = <<>>

\* Looks Good is on screen
AcceptOffered ==
    mode = "camera" /\ backUri # 0 /\ ocrStatus = "ready" /\ ocrEvaluation.ok /\ ~ocrAccepted

\* the text extraction of the back photo failed, that of the front photo
\* read a text
BackFailedFrontRead ==
    /\ mode = "camera"
    /\ backUri # 0 /\ ocrStatus = "failed"
    /\ frontUri # 0 /\ frontRead # ""

\* the text extraction of the front photo failed or read nothing, that of
\* the back photo read a list
FrontFailedBackRead ==
    /\ mode = "camera"
    /\ frontUri # 0 /\ frontRead = ""
    /\ backUri # 0 /\ ocrStatus = "ready" /\ ocrEvaluation.ok

\* C24 as stated: when the extraction of one side has failed and the other
\* side has usable text, the scan can go on to the analysis with that text,
\* whichever side failed.
C24_PartialSuccessProceeds ==
    NothingInFlight /\ ~isAnalyzing /\ (BackFailedFrontRead \/ FrontFailedBackRead)
        => AcceptOffered \/ (mode = "camera" /\ canAnalyze)

\* the half of it that holds: a failed front extraction does not stop the scan
C24_FrontFailureProceeds ==
    NothingInFlight /\ ~isAnalyzing /\ FrontFailedBackRead
        => AcceptOffered \/ (mode = "camera" /\ canAnalyze)

\* the step is the arrival of the response, or of the failure, of request i
Settles(i) == i \in 1..Len(scans) /\ scans' = Without(scans, i)

\* C27 as stated: the response of a scan request that was in flight when the
\* user reset neither repopulates result nor adds a history entry.
C27_ResetDiscardsInFlight ==
    [][\A i \in 1..Len(scans) :
          Settles(i) /\ scans[i].reset => mResult' = mResult /\ history' = history]_vars

\* C28 as stated: a front OCR result that arrives while the product name is
\* not empty leaves the product name as it is.
C28_TypedNameKept ==
    [][\A f \in frontOcrs :
          frontOcrs' = frontOcrs \ {f} /\ trim(productName) # ""
              => productName' = productName]_vars

\* the step sends a camera-mode analysis request
SendsAnalysis ==
    /\ Len(scans') = Len(scans) + 1
    /\ scans'[Len(scans')].mode = "camera"

\* C29 as stated: a camera-mode analysis request is sent only with a back
\* photo present, the back OCR ready with a text that passes evaluateOcrText
\* and that the user accepted, and no OCR or analysis in flight; the text
\* sent is the accepted text; at most one request is in flight.
C29_AnalysisPreconditions ==
    /\ [](Len(scans) <= 1)
    /\ [][SendsAnalysis =>
            /\ backUri # 0
            /\ ocrStatus = "ready" /\ ocrEvaluation.ok
            /\ ocrAccepted
            /\ backOcrs = {} /\ ~isAnalyzing /\ scans = <<>>
            /\ scans'[Len(scans')].text = acceptedText]_vars

\* the parts of it that hold whatever the interleaving
C29_GuardedAndSingle ==
    /\ [](Len(scans) <= 1)
    /\ [][SendsAnalysis =>
            /\ backUri # 0 /\ ocrAccepted
            /\ ocrStatus # "running" /\ ~isAnalyzing /\ scans = <<>>
            /\ scans'[Len(scans')].text = ocrText]_vars
====
